---- MODULE Spec2Model ----
(***************************************************************************)
(* A model of the planning-and-execution core of the assistant backend:    *)
(* the tool retry contract (mcps/base.py), the executor (agent/executor.py)*)
(* with the planner's plans (agent/planner.py) and the orchestrator's      *)
(* clarification branch (agent/orchestrator.py), and the reminder          *)
(* scheduler with the reminder records (scheduler/scheduler.py,            *)
(* memory/temporal.py).                                                    *)
(*                                                                         *)
(* Specifications:                                                         *)
(*   SpecRetry  one call of BaseMCP.execute_with_retry                     *)
(*   Spec       one request: analyze, create_plan, execute_plan            *)
(*   SpecSched  the job store and the reminder records                     *)
(***************************************************************************)
EXTENDS Integers, Sequences, FiniteSets, Bags, TLC

VARIABLES
    \* ---- BaseMCP.execute_with_retry (one call) ----
    rt_max,         \* max_retries
    rt_attempt,     \* iterations of the for loop completed
    rt_last_error,  \* last_error
    rt_log,         \* what each call of execute did, in call order
    rt_ret,         \* the returned MCPOutput, NoValue while running
    rt_exc,         \* the exception that left execute_with_retry, if any
    rt_pc,          \* "idle" | "loop" | "done"
    \* ---- one request: orchestrator, planner, executor ----
    rq_settings,    \* config.settings: the feature flags read here
    rq_mcps,        \* MCPRegistry._mcps of the process-wide registry
    rq_entry,       \* "process_message" or "execute_plan": who runs the plan
    rq_intent,      \* process_message's intent
    rq_entities,    \* process_message's entities
    rq_plan,        \* the Plan create_plan returned
    rq_pc,          \* position in the request
    rq_idx,         \* index in plan.steps of the step the loop runs next
    rq_context,     \* execute_plan's context
    rq_results,     \* execute_plan's results
    rq_errors,      \* execute_plan's errors
    rq_trace,       \* per step dispatched: what it was given and what it did
    rq_sessions,    \* BrowserbaseSessionManager.active_sessions
    rq_effects,     \* the steps whose tool succeeded: their writes stand
    rq_ret,         \* the ExecutionResult execute_plan returned
    rq_reply,       \* the text process_message returned
    \* ---- the reminder scheduler and the reminder records ----
    sc_now,         \* datetime.now()
    sc_reminders,   \* the reminders table: row i is the Reminder with id i
    sc_jobs,        \* the scheduler's job store: a bag of jobs
    sc_scheduled,   \* per reminder id: the latest schedule_reminder call while
                    \* its job is pending, and how the job left the store after
    sc_gone,        \* the reminders that were cancelled or marked sent
    \* ---- one message through process_message, from its text ----
    pm_message,     \* the message text, as tokens
    pm_enable,      \* settings.enable_clarifying_questions
    pm_pc,          \* position in process_message
    pm_stm,         \* the short-term memory's messages
    pm_saved,       \* the conversation rows save_conversation stored
    pm_parsed,      \* what DateTimeParser.parse made of the text
    pm_answer,      \* the JSON object the LLM answered with
    pm_analysis,    \* what analyze_message returned or raised
    pm_plan,        \* the Plan create_plan returned
    pm_result,      \* how execute_plan ended
    pm_ret,         \* the text process_message returned
    pm_exc,         \* the exception that left process_message, if any
    \* ---- the scheduler's job store across process restarts ----
    ps_process,     \* which process is running: 1, then 2 after a restart, ...
    ps_fired,       \* the ids of the jobs that ran in the running process
    \* ---- one update of execute_plan's context from a step's result ----
    cx_context,     \* context before the update
    cx_result,      \* the MCPOutput the step returned
    cx_after,       \* context after the update
    cx_pc,          \* "idle" | "start" | "done"
    \* ---- execute_plan called again on the same plan object ----
    rn_plan0,       \* the plan as create_plan returned it
    rn_first,       \* NoValue, or what the first execute_plan call left
    \* ---- an MCPRegistry and its callers ----
    rg_registry,    \* [mcps: the name/instance items in insertion order, cache]
    rg_last,        \* NoValue, or the last call: [op, arg, ret]
    rg_caps,        \* <<>> or <<the latest return of get_all_capabilities>>
    rg_prev,        \* <<>> or <<the return of get_all_capabilities before it>>
    \* ---- one call of extract_intent ----
    ix_text,        \* the message, as its words
    ix_intent,      \* NoValue, or the intent returned
    \* ---- the call of _generate_response of a request ----
    gr_call,        \* NoValue, or [llm: what the LLM call would do, called]
    \* ---- memory/short_term.py: the per-user buffers ----
    um_max,         \* settings.short_term_memory_size
    um_memories,    \* _user_memories: user id -> the buffer's messages
    um_arrived,     \* per user id: the messages added since the last clear
    um_last,        \* NoValue, or the last call: [op, user_id]
    \* ---- analyze_message on one LLM answer in two key orders ----
    ko_message,     \* the message text, as tokens
    ko_parsed,      \* what DateTimeParser.parse made of the text
    ko_answer,      \* the LLM's JSON object, as items in order
    ko_other,       \* the same items in another order
    ko_out,         \* NoValue, or [first, second]: analyze_message on each
    \* ---- two requests in flight on the process-wide registry ----
    cq_mcps,        \* _global_registry._mcps: name -> the instance registered
    cq_latest,      \* 0, or the request whose executor was constructed last
    cq_req,         \* per request: [pc, plan, idx, context, trace]
    cq_held,        \* per request: active_sessions of its BrowserbaseMCP
    \* ---- one create of the reminder tool through execute_with_retry ----
    cr_input,       \* the ReminderInput: [title, remind_at], <<>> for None
    cr_scheduler,   \* whether the tool was constructed with a scheduler
    cr_st,          \* the loop state of execute_with_retry
    cr_env,         \* per attempt: what the database and the job store did
    cr_pc           \* "idle" | "loop" | "done"

rvars == <<rt_max, rt_attempt, rt_last_error, rt_log, rt_ret, rt_exc, rt_pc>>

avars == <<rq_settings, rq_mcps, rq_entry, rq_intent, rq_entities, rq_plan, rq_pc,
           rq_idx, rq_context, rq_results, rq_errors, rq_trace, rq_sessions,
           rq_effects, rq_ret, rq_reply>>

svars == <<sc_now, sc_reminders, sc_jobs, sc_scheduled, sc_gone>>

mvars == <<pm_message, pm_enable, pm_pc, pm_stm, pm_saved, pm_parsed, pm_answer,
           pm_analysis, pm_plan, pm_result, pm_ret, pm_exc>>

\* The variables of the specifications that follow the first three.
pvars == <<ps_process, ps_fired>>

cvars == <<cx_context, cx_result, cx_after, cx_pc>>

nvars == <<rn_plan0, rn_first>>

gvars == <<rg_registry, rg_last, rg_caps, rg_prev>>

ivars == <<ix_text, ix_intent>>

xvars == <<cvars, nvars, gvars, ivars>>

lvars == <<gr_call>>

uvars == <<um_max, um_memories, um_arrived, um_last>>

kvars == <<ko_message, ko_parsed, ko_answer, ko_other, ko_out>>

qvars == <<cq_mcps, cq_latest, cq_req, cq_held>>

dvars == <<cr_input, cr_scheduler, cr_st, cr_env, cr_pc>>

wvars == <<uvars, kvars, qvars, dvars>>

yvars == <<lvars, wvars>>

evars == <<mvars, pvars, xvars, yvars>>

vars == <<rvars, avars, svars, evars>>

\* Python's None where a str is expected; "nothing returned yet" for a slot
\* that holds a result; "no exception" for a slot that holds a raised one.
None == "None"
NoValue == [no_value |-> TRUE]
NoException == "NoException"

(***************************************************************************)
(* mcps/base.py                                                            *)
(***************************************************************************)

\* MCPStatus
SUCCESS == "success"
FAILURE == "failure"
PARTIAL == "partial"
MCPStatus == {SUCCESS, FAILURE, PARTIAL}

\* MCPOutput(status, data, message, error, metadata); data and error default
\* to None, metadata to the empty mapping.
MCPOutput(status, data, message, error, metadata) ==
    [status |-> status, data |-> data, message |-> message,
     error |-> error, metadata |-> metadata]

\* A mapping is a function on its keys; {} is EmptyDict, and a data payload
\* of None is NoneData (no key is in it).
EmptyDict == [k \in {} |-> None]
NoneData == [none_data |-> TRUE]

\* What one call of execute does: it returns an MCPOutput or raises Exception.
Returned(r) == [kind |-> "return", result |-> r]
Raised(m) == [kind |-> "raise", msg |-> m]

IsSuccess(o) == o.kind = "return" /\ o.result.status = SUCCESS

\* The error an attempt leaves in last_error: result.error of a returned
\* non-success result, str(e) of a raised exception.
AttemptError(o) == IF o.kind = "return" THEN o.result.error ELSE o.msg

\* f"Failed after {max_retries} attempts"
FailedAfterMessage(n) == <<"Failed after", n, "attempts">>

\* The loop state of execute_with_retry.
RetryState(attempt, last_error, log, ret, exc) ==
    [attempt |-> attempt, last_error |-> last_error, log |-> log,
     ret |-> ret, exc |-> exc]

RetryStart == RetryState(0, None, <<>>, NoValue, NoException)

\* RetryAttempt without the except clause: the exception leaves the call.
RetryAttemptNoCatch(st, o) ==
    LET log == Append(st.log, o)
    IN  IF o.kind = "return"
        THEN IF o.result.status = SUCCESS
             THEN RetryState(st.attempt + 1, st.last_error, log, o.result, NoException)
             ELSE RetryState(st.attempt + 1, o.result.error, log, NoValue, NoException)
        ELSE RetryState(st.attempt + 1, st.last_error, log, NoValue, o.msg)

\* RetryAttempt without the return on success: the loop goes on.
RetryAttemptNoReturn(st, o) ==
    LET log == Append(st.log, o)
    IN  IF o.kind = "return"
        THEN RetryState(st.attempt + 1, o.result.error, log, NoValue, NoException)
        ELSE RetryState(st.attempt + 1, o.msg, log, NoValue, NoException)

\* RetryAttempt returning every result that is not a FAILURE: a PARTIAL
\* result would end the loop like a SUCCESS.
RetryAttemptReturnsPartial(st, o) ==
    LET log == Append(st.log, o)
    IN  IF o.kind = "return"
        THEN IF o.result.status # FAILURE
             THEN RetryState(st.attempt + 1, st.last_error, log, o.result, NoException)
             ELSE RetryState(st.attempt + 1, o.result.error, log, NoValue, NoException)
        ELSE RetryState(st.attempt + 1, o.msg, log, NoValue, NoException)

\* One iteration of `for attempt in range(max_retries)`: execute is called
\* and does o. A success result is returned at once; any other result
\* leaves its error in last_error; an exception is caught and leaves str(e).
RetryAttempt(st, o) ==
    LET log == Append(st.log, o)
    IN  IF o.kind = "return"
        THEN IF o.result.status = SUCCESS
             THEN RetryState(st.attempt + 1, st.last_error, log, o.result, NoException)
             ELSE RetryState(st.attempt + 1, o.result.error, log, NoValue, NoException)
        ELSE RetryState(st.attempt + 1, o.msg, log, NoValue, NoException)

\* After the loop: the synthesized failure.
RetryExhausted(st, max_retries) ==
    [st EXCEPT !.ret = MCPOutput(FAILURE, NoneData, FailedAfterMessage(max_retries),
                                 st.last_error, EmptyDict)]

RetryFinished(st) == st.ret # NoValue \/ st.exc # NoException

\* The whole call against a tool whose i-th call of execute does script[i].
RECURSIVE RetryRun(_, _, _)
RetryRun(st, script, max_retries) ==
    IF RetryFinished(st) THEN st
    ELSE IF st.attempt < max_retries
         THEN RetryRun(RetryAttempt(st, script[st.attempt + 1]), script, max_retries)
         ELSE RetryExhausted(st, max_retries)

execute_with_retry(script, max_retries) == RetryRun(RetryStart, script, max_retries)

(***************************************************************************)
(* Python values of step parameters and entities                          *)
(***************************************************************************)

\* A str is the sequence of its pieces: literal text, or a ${name} token
\* that the pattern \$\{(\w+)\} of _execute_step matches.
Lit(s) == [lit |-> s]
Var(n) == [var |-> n]
IsVar(tok) == "var" \in DOMAIN tok

PyNone == [t |-> "none"]
PyStr(toks) == [t |-> "str", toks |-> toks]
PyDatetime(v) == [t |-> "datetime", v |-> v]
PyTimedelta(v) == [t |-> "timedelta", v |-> v]
Text(s) == PyStr(<<Lit(s)>>)

\* bool(v): None, the empty string and timedelta(0) are falsy.
Truthy(v) ==
    \/ v.t = "datetime"
    \/ v.t = "str" /\ v.toks # <<>>
    \/ v.t = "timedelta" /\ v.v # 0

\* The pieces of f"{v}".
Formatted(v) ==
    IF v.t = "str" THEN v.toks
    ELSE IF v.t = "none" THEN <<Lit("None")>>
    ELSE <<Lit(v)>>

\* a or b
PyOr(a, b) == IF Truthy(a) THEN a ELSE b

(***************************************************************************)
(* agent/planner.py                                                        *)
(***************************************************************************)

\* Plan(steps, requires_clarification, clarifying_questions)
Plan(steps, requires_clarification, clarifying_questions) ==
    [steps |-> steps, requires_clarification |-> requires_clarification,
     clarifying_questions |-> clarifying_questions]

\* One step dict.
Step(n, action, tool, parameters) ==
    [step |-> n, action |-> action, tool |-> tool, parameters |-> parameters]

\* The intents _check_missing_info and _create_execution_steps branch on,
\* and those they let fall through.
PlannerIntents ==
    {"create_event", "create_reminder", "create_task", "create_note",
     "query_events", "query_reminders",
     "file_upload", "file_list", "file_link", "file_share",
     "browser_navigation", "browser_screenshot", "browser_extract",
     "browser_interaction",
     "cancel", "update", "general_query"}

\* _check_missing_info
CheckMissingInfo(intent, entities) ==
    IF intent \in {"create_event", "create_reminder"}
    THEN (IF ~Truthy(entities.title) THEN <<"title">> ELSE <<>>)
         \o (IF ~Truthy(entities.datetime) THEN <<"datetime">> ELSE <<>>)
    ELSE IF intent = "create_task"
    THEN (IF ~Truthy(entities.title) THEN <<"title">> ELSE <<>>)
    ELSE IF intent = "create_note"
    THEN (IF ~Truthy(entities.title) /\ ~Truthy(entities.description)
          THEN <<"content">> ELSE <<>>)
    ELSE <<>>

\* question_map of _generate_clarifying_questions
QuestionMap ==
    [title |-> "What would you like to call this?",
     datetime |-> "When should this be?",
     duration |-> "How long will it last?",
     location |-> "Where will this take place?",
     reminder_before |-> "How long before should I remind you?",
     content |-> "What would you like to save?"]

\* _generate_clarifying_questions: one question per missing field that the
\* map knows, in the order of missing_info.
RECURSIVE GenerateClarifyingQuestions(_)
GenerateClarifyingQuestions(missing_info) ==
    IF missing_info = <<>> THEN <<>>
    ELSE (IF Head(missing_info) \in DOMAIN QuestionMap
          THEN <<QuestionMap[Head(missing_info)]>> ELSE <<>>)
         \o GenerateClarifyingQuestions(Tail(missing_info))

SessionRef == PyStr(<<Var("session_id")>>)

CreateSessionStep(n) ==
    Step(n, "create_session", "BrowserbaseMCP", [action |-> Text("create_session")])

NavigateStep(n, url) ==
    Step(n, "navigate", "BrowserbaseMCP",
         [action |-> Text("navigate"), session_id |-> SessionRef, url |-> url])

ScreenshotStep(n) ==
    Step(n, "screenshot", "BrowserbaseMCP",
         [action |-> Text("screenshot"), session_id |-> SessionRef])

\* What the planner's regular expressions find in raw_text: a full URL
\* (https?://...), else a bare domain, which gets https:// prefixed.
UrlOrDomain(raw) ==
    IF raw.link = "url" THEN Text("http://u")
    ELSE IF raw.link = "domain" THEN Text("https://d")
    ELSE PyNone

\* Only the full-URL pattern (browser_screenshot).
UrlOnly(raw) == IF raw.link = "url" THEN Text("http://u") ELSE PyNone

\* action_type of browser_interaction, by keyword priority.
ActionType(raw) ==
    IF raw.has_type THEN "type" ELSE IF raw.has_scroll THEN "scroll" ELSE "click"

\* _create_execution_steps
CreateExecutionSteps(intent, entities) ==
    LET raw == entities.raw_text
    IN  CASE intent = "create_event" ->
               <<Step(1, "create_event", "CalendarMCP",
                      [action |-> Text("create_event"), title |-> entities.title,
                       start_time |-> entities.datetime,
                       description |-> entities.description,
                       location |-> PyNone])>>
               \o (IF Truthy(entities.reminder_before)
                   THEN <<Step(2, "create_reminder", "ReminderMCP",
                               [action |-> Text("create"),
                                title |-> PyStr(<<Lit("Reminder: ")>>
                                                \o Formatted(entities.title)),
                                remind_at |-> entities.datetime])>>
                   ELSE <<>>)
          [] intent = "create_reminder" ->
               <<Step(1, "create_reminder", "ReminderMCP",
                      [action |-> Text("create"), title |-> entities.title,
                       remind_at |-> entities.datetime,
                       description |-> entities.description])>>
          [] intent = "query_events" ->
               <<Step(1, "list_events", "CalendarMCP",
                      [action |-> Text("list_events")])>>
          [] intent = "file_upload" ->
               <<Step(1, "upload", "FileStorageMCP",
                      [action |-> Text("upload"), file_path |-> PyNone,
                       file_name |-> PyOr(PyNone, entities.title)])>>
          [] intent = "file_list" ->
               <<Step(1, "list", "FileStorageMCP", [action |-> Text("list")])>>
          [] intent = "file_link" ->
               <<Step(1, "get_link", "FileStorageMCP",
                      [action |-> Text("get_link"), file_id |-> PyNone,
                       file_name |-> PyOr(entities.title, PyNone)])>>
          [] intent = "file_share" ->
               <<Step(1, "share", "FileStorageMCP",
                      [action |-> Text("share"), file_id |-> PyNone,
                       share_with |-> PyNone, access_level |-> Text("viewer")])>>
          [] intent = "query_reminders" ->
               <<Step(1, "list_reminders", "ReminderMCP", [action |-> Text("list")])>>
          [] intent = "browser_navigation" ->
               LET url == UrlOrDomain(raw)
                   nav == IF Truthy(url) THEN <<NavigateStep(2, url)>> ELSE <<>>
               IN  <<CreateSessionStep(1)>> \o nav
                   \o (IF raw.has_screenshot
                       THEN <<ScreenshotStep(2 + Len(nav))>> ELSE <<>>)
          [] intent = "browser_screenshot" ->
               LET url == UrlOnly(raw)
               IN  <<CreateSessionStep(1)>>
                   \o (IF Truthy(url)
                       THEN <<NavigateStep(2, url), ScreenshotStep(3)>>
                       ELSE <<ScreenshotStep(2)>>)
          [] intent = "browser_extract" ->
               LET url == UrlOrDomain(raw)
               IN  <<CreateSessionStep(1)>>
                   \o (IF Truthy(url) THEN <<NavigateStep(2, url)>> ELSE <<>>)
                   \o <<Step(IF Truthy(url) THEN 3 ELSE 2, "extract", "BrowserbaseMCP",
                             [action |-> Text("extract"), session_id |-> SessionRef,
                              instruction |-> Text("raw_text"),
                              data_format |-> Text("json")])>>
          [] intent = "browser_interaction" ->
               <<CreateSessionStep(1),
                 Step(2, "act", "BrowserbaseMCP",
                      [action |-> Text("act"), session_id |-> SessionRef,
                       action_type |-> Text(ActionType(raw)),
                       instruction |-> Text("raw_text")])>>
          [] OTHER -> <<>>

\* create_plan, were the clarification plan to carry the intent's steps.
CreatePlanKeepsSteps(intent, entities, enable_clarifying_questions) ==
    LET missing_info == CheckMissingInfo(intent, entities)
    IN  IF missing_info # <<>> /\ enable_clarifying_questions
        THEN Plan(CreateExecutionSteps(intent, entities), TRUE,
                  GenerateClarifyingQuestions(missing_info))
        ELSE Plan(CreateExecutionSteps(intent, entities), FALSE, <<>>)

\* create_plan: a clarification plan when something is missing and
\* settings.enable_clarifying_questions, else the steps of the intent.
CreatePlan(intent, entities, enable_clarifying_questions) ==
    LET missing_info == CheckMissingInfo(intent, entities)
    IN  IF missing_info # <<>> /\ enable_clarifying_questions
        THEN Plan(<<>>, TRUE, GenerateClarifyingQuestions(missing_info))
        ELSE Plan(CreateExecutionSteps(intent, entities), FALSE, <<>>)

(***************************************************************************)
(* mcps/registry.py                                                        *)
(***************************************************************************)

\* MCPRegistry._mcps maps a name to the registered instance; an instance is
\* identified here by its class name.
RegistryRegister(mcps, mcp) ==
    [n \in DOMAIN mcps \cup {mcp} |-> IF n = mcp THEN mcp ELSE mcps[n]]

\* MCPRegistry.get: the instance, or None when the name is not registered.
RegistryGet(mcps, name) == IF name \in DOMAIN mcps THEN mcps[name] ELSE None

\* get_capabilities of an instance: the names of the capabilities its class
\* lists, in order.
Capabilities(mcp) ==
    IF mcp = "CalendarMCP"
    THEN <<"create_event", "list_events", "update_event", "delete_event">>
    ELSE IF mcp = "ReminderMCP"
    THEN <<"create_reminder", "list_reminders", "cancel_reminder">>
    ELSE <<>>

\* The registry object: _mcps as its items in insertion order,
\* _capabilities_cache as <<>> (None) or <<the list>>.
Registry(mcps, cache) == [mcps |-> mcps, cache |-> cache]

\* name in self._mcps
RegistryHas(reg, name) == \E i \in 1..Len(reg.mcps) : reg.mcps[i][1] = name

\* MCPRegistry.register
register(reg, mcp, name) ==
    LET mcp_name == IF name = None \/ name = "" THEN mcp ELSE name
        mcps == IF RegistryHas(reg, mcp_name)
                THEN [i \in 1..Len(reg.mcps) |->
                         IF reg.mcps[i][1] = mcp_name THEN <<mcp_name, mcp>>
                         ELSE reg.mcps[i]]
                ELSE Append(reg.mcps, <<mcp_name, mcp>>)
    IN  Registry(mcps, <<>>)

\* MCPRegistry.unregister, were the cache left as it is.
unregister_keeps_cache(reg, name) ==
    IF RegistryHas(reg, name)
    THEN [reg |-> Registry(SelectSeq(reg.mcps, LAMBDA item : item[1] # name), reg.cache),
          ret |-> TRUE]
    ELSE [reg |-> reg, ret |-> FALSE]

\* MCPRegistry.unregister: the registry afterwards and the value returned.
unregister(reg, name) ==
    IF RegistryHas(reg, name)
    THEN [reg |-> Registry(SelectSeq(reg.mcps, LAMBDA item : item[1] # name), <<>>),
          ret |-> TRUE]
    ELSE [reg |-> reg, ret |-> FALSE]

\* MCPRegistry.get on the registry object.
get(reg, name) ==
    IF RegistryHas(reg, name)
    THEN reg.mcps[CHOOSE i \in 1..Len(reg.mcps) : reg.mcps[i][1] = name][2]
    ELSE None

\* The loop of get_all_capabilities over self._mcps.items().
RECURSIVE ExtendAll(_)
ExtendAll(items) ==
    IF items = <<>> THEN <<>>
    ELSE Capabilities(Head(items)[2]) \o ExtendAll(Tail(items))

\* MCPRegistry.get_all_capabilities: the registry afterwards and the list
\* returned.
get_all_capabilities(reg) ==
    IF reg.cache # <<>>
    THEN [reg |-> reg, ret |-> reg.cache[1]]
    ELSE LET capabilities == ExtendAll(reg.mcps)
         IN  [reg |-> Registry(reg.mcps, <<capabilities>>), ret |-> capabilities]

(***************************************************************************)
(* The tools' execute, as far as the executor depends on it                *)
(***************************************************************************)

DictGet(d, k) == IF k \in DOMAIN d THEN d[k] ELSE PyNone

\* BrowserbaseMCP.execute on the session manager's active_sessions. uuid is
\* the id uuid4 yields, io_ok whether the body of the action's try block
\* runs without an exception. Yields the result and the sessions after it.
BrowserbaseExecute(input, sessions, uuid, io_ok) ==
    LET action == DictGet(input, "action")
        sid == DictGet(input, "session_id")
        fail(msg, err) ==
            [result |-> MCPOutput(FAILURE, NoneData, msg, err, EmptyDict),
             sessions |-> sessions]
        ok(data) ==
            [result |-> MCPOutput(SUCCESS, data, <<"Browser action done", action, sid>>, None,
                                  [session_id |-> sid]),
             sessions |-> sessions]
    IN  IF action = Text("create_session")
        THEN LET new == IF Truthy(sid) THEN sid ELSE Text(uuid)
             IN  [result |-> MCPOutput(SUCCESS, [id |-> new],
                                       <<"Browser session created", new>>, None,
                                       [session_id |-> new]),
                  sessions |-> sessions \cup {new}]
        ELSE IF action \in {Text("navigate"), Text("screenshot"),
                            Text("extract"), Text("act")}
        THEN IF ~Truthy(sid) THEN fail(<<"Session ID is required">>, "Missing session_id")
             ELSE IF action = Text("navigate") /\ ~Truthy(DictGet(input, "url"))
             THEN fail(<<"URL is required">>, "Missing URL")
             ELSE IF action = Text("extract") /\ ~Truthy(DictGet(input, "instruction"))
             THEN fail(<<"Instruction is required">>, "Missing instruction")
             ELSE IF action = Text("act") /\ ~Truthy(DictGet(input, "action_type"))
             THEN fail(<<"Action type is required">>, "Missing action_type")
             ELSE IF sid \notin sessions
             THEN fail(<<"Session not found", sid>>, "Invalid session")
             ELSE IF ~io_ok THEN fail(<<"Failed to execute browser operation">>, "io error")
             ELSE IF action \in {Text("navigate"), Text("screenshot")}
             THEN ok([session_id |-> sid])
             ELSE ok([executed |-> TRUE])
        ELSE fail(<<"Unknown action", action>>, "Invalid action")

\* CalendarMCP.execute and ReminderMCP.execute: both catch every exception
\* of the operation and return it as a FAILURE. io_ok: the store and the
\* calendar backend answer.
CalendarExecute(input, io_ok) ==
    LET action == DictGet(input, "action")
        fail(err) == MCPOutput(FAILURE, NoneData, <<"Calendar operation failed">>, err, EmptyDict)
    IN  IF action = Text("create_event")
        THEN IF ~Truthy(DictGet(input, "title")) \/ ~Truthy(DictGet(input, "start_time"))
             THEN fail("Missing required fields")
             ELSE IF ~io_ok THEN fail("io error")
             ELSE MCPOutput(SUCCESS, [event_id |-> 1], <<"Created event">>, None, EmptyDict)
        ELSE IF action = Text("list_events")
        THEN IF ~io_ok THEN fail("io error")
             ELSE MCPOutput(SUCCESS, [events |-> <<>>], <<"Found events">>, None, EmptyDict)
        ELSE fail("Invalid action")

ReminderExecute(input, io_ok) ==
    LET action == DictGet(input, "action")
        fail(err) == MCPOutput(FAILURE, NoneData, <<"Reminder operation failed">>, err, EmptyDict)
    IN  IF action = Text("create")
        THEN IF ~Truthy(DictGet(input, "remind_at"))
             THEN fail("Missing required field: remind_at")
             ELSE IF ~io_ok THEN fail("io error")
             ELSE MCPOutput(SUCCESS, [reminder_id |-> 1], <<"Created reminder">>, None,
                            EmptyDict)
        ELSE IF action = Text("list")
        THEN IF ~io_ok THEN fail("io error")
             ELSE MCPOutput(SUCCESS, [reminders |-> <<>>], <<"Found reminders">>, None,
                            EmptyDict)
        ELSE fail("Invalid action")

\* One call of the registered tool's execute.
ToolExecute(tool, input, sessions, uuid, io_ok) ==
    IF tool = "BrowserbaseMCP" THEN BrowserbaseExecute(input, sessions, uuid, io_ok)
    ELSE IF tool = "CalendarMCP"
    THEN [result |-> CalendarExecute(input, io_ok), sessions |-> sessions]
    ELSE [result |-> ReminderExecute(input, io_ok), sessions |-> sessions]

(***************************************************************************)
(* agent/executor.py                                                       *)
(***************************************************************************)

\* ExecutionResult(success, message, data, errors)
ExecutionResult(success, message, data, errors) ==
    [success |-> success, message |-> message, data |-> data, errors |-> errors]

\* max_retries of execute_with_retry when the caller passes none.
DefaultMaxRetries == 3

\* The retry budget _execute_step passes to execute_with_retry.
StepMaxRetries == 2

\* The tools _execute_step can build a typed input for.
TypedInputTools == {"CalendarMCP", "ReminderMCP", "BraveSearchMCP", "BrowserbaseMCP"}

\* AgentExecutor.__init__: the tools it registers in the registry.
ExecutorRegister(mcps, settings) ==
    LET m1 == RegistryRegister(RegistryRegister(mcps, "CalendarMCP"), "ReminderMCP")
        m2 == IF settings.enable_brave_search
              THEN RegistryRegister(m1, "BraveSearchMCP") ELSE m1
    IN  IF settings.enable_browserbase
        THEN RegistryRegister(m2, "BrowserbaseMCP") ELSE m2

\* The substitution with str(context.get(name)) in replace_var: a token
\* whose name the context lacks becomes the text "None".
RECURSIVE ReplaceVarsNoDefault(_, _)
ReplaceVarsNoDefault(toks, context) ==
    IF toks = <<>> THEN <<>>
    ELSE (IF IsVar(Head(toks))
          THEN (IF Head(toks).var \in DOMAIN context
                THEN Formatted(context[Head(toks).var]) ELSE <<Lit("None")>>)
          ELSE <<Head(toks)>>)
         \o ReplaceVarsNoDefault(Tail(toks), context)

\* re.sub(r'\$\{(\w+)\}', replace_var, value): a token whose name is a key of
\* the context becomes str(context[name]); any other token stays as it is.
RECURSIVE ReplaceVars(_, _)
ReplaceVars(toks, context) ==
    IF toks = <<>> THEN <<>>
    ELSE (IF IsVar(Head(toks)) /\ Head(toks).var \in DOMAIN context
          THEN Formatted(context[Head(toks).var])
          ELSE <<Head(toks)>>)
         \o ReplaceVars(Tail(toks), context)

\* The copy of step["parameters"] with the str values that hold "${"
\* substituted.
ResolveParameters(parameters, context) ==
    [k \in DOMAIN parameters |->
        LET value == parameters[k]
        IN  IF value.t = "str" /\ (\E i \in 1..Len(value.toks) : IsVar(value.toks[i]))
            THEN PyStr(ReplaceVars(value.toks, context))
            ELSE value]

\* step["parameters"] after _execute_step, were the substitution made in the
\* step's own mapping.
ParametersResolvedInPlace(parameters, context) ==
    ResolveParameters(parameters, context)

\* step["parameters"] after _execute_step: the substitution works on a copy,
\* the step's own mapping keeps its values.
ParametersLeftInStep(parameters, context) == parameters

\* The result of _execute_step for a tool the registry does not hold, with
\* another error text.
NotRegisteredResultOtherError(tool_name) ==
    MCPOutput(FAILURE, NoneData, <<"Tool not found", tool_name>>, "Unknown tool",
              EmptyDict)

\* The result of _execute_step for a tool the registry does not hold.
NotRegisteredResult(tool_name) ==
    MCPOutput(FAILURE, NoneData, <<"Tool not found", tool_name>>,
              "Tool not registered", EmptyDict)

\* _execute_step for a tool the registry does not hold, were the lookup made
\* by every attempt of the retry loop.
MissingToolStepRetried(tool_name, sessions) ==
    LET script == [i \in 1..StepMaxRetries |-> Returned(NotRegisteredResult(tool_name))]
        run == execute_with_retry(script, StepMaxRetries)
    IN  [outcome |-> IF run.exc # NoException THEN Raised(run.exc) ELSE Returned(run.ret),
         passed |-> NoValue, calls |-> 0, attempts |-> Len(run.log),
         sessions |-> sessions]

\* _execute_step for a tool the registry does not hold: `if not mcp` returns
\* the failure at once, before any typed input is built and before
\* execute_with_retry is reached.
MissingToolStep(tool_name, sessions) ==
    [outcome |-> Returned(NotRegisteredResult(tool_name)),
     passed |-> NoValue, calls |-> 0, attempts |-> 0, sessions |-> sessions]

\* _execute_step. env holds what the step meets outside the executor:
\* valid (the typed input validates), uuid, io (per attempt, whether the
\* tool's backend answers). Yields what the step did (returned a result or
\* raised), the parameters handed to the tool (NoValue when no tool was
\* called), the calls of execute made, the attempts of execute_with_retry's
\* loop and the browser sessions afterwards.
ExecuteStep(step, context, mcps, sessions, env) ==
    LET tool_name == step.tool
        parameters == ResolveParameters(step.parameters, context)
        none(o) == [outcome |-> o, passed |-> NoValue, calls |-> 0, attempts |-> 0,
                    sessions |-> sessions]
    IN  IF RegistryGet(mcps, tool_name) = None
        THEN MissingToolStep(tool_name, sessions)
        ELSE IF tool_name \notin TypedInputTools
        THEN none(Returned(MCPOutput(FAILURE, NoneData, <<"Unknown tool", tool_name>>,
                                     "Unknown tool", EmptyDict)))
        ELSE IF ~env.valid
        THEN none(Raised("ValidationError"))
        ELSE LET try == [i \in 1..StepMaxRetries |->
                            ToolExecute(tool_name, parameters, sessions, env.uuid,
                                        env.io[i])]
                 script == [i \in 1..StepMaxRetries |-> Returned(try[i].result)]
                 run == execute_with_retry(script, StepMaxRetries)
             IN  [outcome |-> IF run.exc # NoException
                              THEN Raised(run.exc) ELSE Returned(run.ret),
                  passed |-> parameters,
                  calls |-> Len(run.log),
                  attempts |-> Len(run.log),
                  sessions |-> IF run.ret # NoValue /\ run.ret.status = SUCCESS
                               THEN try[Len(run.log)].sessions ELSE sessions]

\* UpdateContext without the look at result.metadata.
UpdateContextDataOnly(context, result) ==
    LET set(c, k, v) == [n \in DOMAIN c \cup {k} |-> IF n = k THEN v ELSE c[n]]
        data == result.data
        is_dict == data # NoneData /\ DOMAIN data # {}
        c1 == IF is_dict /\ "session_id" \in DOMAIN data
              THEN set(context, "session_id", data.session_id) ELSE context
    IN  IF result.status # SUCCESS THEN context
        ELSE IF is_dict /\ "data" \in DOMAIN data
        THEN [n \in DOMAIN c1 \cup DOMAIN data.data |->
                 IF n \in DOMAIN data.data THEN data.data[n] ELSE c1[n]]
        ELSE c1

\* UpdateContext with the look at result.metadata made before the look at
\* result.data.
UpdateContextMetadataFirst(context, result) ==
    LET set(c, k, v) == [n \in DOMAIN c \cup {k} |-> IF n = k THEN v ELSE c[n]]
        data == result.data
        is_dict == data # NoneData /\ DOMAIN data # {}
        c0 == IF "session_id" \in DOMAIN result.metadata
              THEN set(context, "session_id", result.metadata.session_id) ELSE context
        c1 == IF is_dict /\ "session_id" \in DOMAIN data
              THEN set(c0, "session_id", data.session_id) ELSE c0
    IN  IF result.status # SUCCESS THEN context
        ELSE IF is_dict /\ "data" \in DOMAIN data
        THEN [n \in DOMAIN c1 \cup DOMAIN data.data |->
                 IF n \in DOMAIN data.data THEN data.data[n] ELSE c1[n]]
        ELSE c1

\* The context after a step's result, as the loop body of execute_plan
\* updates it.
UpdateContext(context, result) ==
    LET set(c, k, v) == [n \in DOMAIN c \cup {k} |-> IF n = k THEN v ELSE c[n]]
        data == result.data
        is_dict == data # NoneData /\ DOMAIN data # {}
        c1 == IF is_dict /\ "session_id" \in DOMAIN data
              THEN set(context, "session_id", data.session_id) ELSE context
        c2 == IF is_dict /\ "data" \in DOMAIN data
              THEN [n \in DOMAIN c1 \cup DOMAIN data.data |->
                       IF n \in DOMAIN data.data THEN data.data[n] ELSE c1[n]]
              ELSE c1
    IN  IF result.status # SUCCESS THEN context
        ELSE IF "session_id" \in DOMAIN result.metadata
        THEN set(c2, "session_id", result.metadata.session_id)
        ELSE c2

\* StepErrors without the except clause's append.
StepErrorsFailureOnly(step, outcome) ==
    IF outcome.kind = "return" /\ outcome.result.status = FAILURE
    THEN <<<<"Step", step.step, "failed", outcome.result.error>>>>
    ELSE <<>>

\* The entry the loop body appends to errors for a step, <<>> if none.
StepErrors(step, outcome) ==
    IF outcome.kind = "raise"
    THEN <<<<"Step", step.step, "error", outcome.msg>>>>
    ELSE IF outcome.result.status = FAILURE
    THEN <<<<"Step", step.step, "failed", outcome.result.error>>>>
    ELSE <<>>

\* The for loop's next index, were a failed or raising step to end the loop.
NextStepIndexStopOnFailure(i, outcome, steps) ==
    IF outcome.kind = "raise" \/ outcome.result.status = FAILURE
    THEN Len(steps) + 1 ELSE i + 1

\* `for step in plan.steps`: the index of the step after step i, whatever
\* step i did (the loop body has no break and its except clause no raise).
NextStepIndex(i, outcome, steps) == i + 1

\* _create_summary_message
CreateSummaryMessage(results, errors) ==
    IF errors # <<>> THEN <<"Completed with errors", errors>>
    ELSE IF results = <<>> THEN <<"No actions were taken.">>
    ELSE <<"Summary",
           [i \in 1..Len(results) |->
               <<IF results[i].status = SUCCESS THEN "ok" ELSE "warn",
                 results[i].message>>]>>

\* The early return of execute_plan for a plan that requires clarification.
ClarificationResult(plan) ==
    ExecutionResult(FALSE, <<"Need more information">>,
                    [clarifying_questions |-> plan.clarifying_questions], <<>>)

\* The aggregate result after the loop.
AggregateResult(results, errors) ==
    ExecutionResult(errors = <<>>, CreateSummaryMessage(results, errors),
                    [results |-> [i \in 1..Len(results) |-> results[i].data]], errors)

(***************************************************************************)
(* agent/orchestrator.py                                                   *)
(***************************************************************************)

\* _format_clarifying_questions: the question itself when there is one,
\* else a numbered list under a heading.
FormatClarifyingQuestions(questions) ==
    IF Len(questions) = 1 THEN <<questions[1]>>
    ELSE <<"I need a bit more information:">>
         \o [i \in 1..Len(questions) |-> <<i, questions[i]>>]

(***************************************************************************)
(* scheduler/scheduler.py, memory/temporal.py, mcps/reminder_mcp.py        *)
(***************************************************************************)

\* A nullable DateTime column: empty, or holding one time.
NoTime == <<>>
At(t) == <<t>>

\* A row of the reminders table as create_reminder inserts it; of its
\* columns, those the operations below write.
Reminder(user_id) ==
    [user_id |-> user_id, is_sent |-> FALSE, sent_at |-> NoTime, status |-> "active"]

\* get_active_reminders without the filter on status.
get_active_reminders_any_status(reminders, user_id) ==
    LET owned(i) == reminders[i].user_id = user_id
    IN  SelectSeq([i \in 1..Len(reminders) |-> i], owned)

\* LongTermMemory.get_active_reminders: the ids of the rows returned (the
\* rows carry no remind_at here, so the rows come in table order).
get_active_reminders(reminders, user_id) ==
    LET active(i) == reminders[i].user_id = user_id /\ reminders[i].status = "active"
    IN  SelectSeq([i \in 1..Len(reminders) |-> i], active)

\* TemporalMemory.mark_reminder_sent: the rows after it.
mark_reminder_sent(reminders, reminder_id, now) ==
    IF reminder_id \in DOMAIN reminders
    THEN [reminders EXCEPT ![reminder_id] =
             [@ EXCEPT !.is_sent = TRUE, !.sent_at = At(now), !.status = "sent"]]
    ELSE reminders

\* TemporalMemory.cancel_reminder: the rows after it.
cancel_reminder(reminders, reminder_id) ==
    IF reminder_id \in DOMAIN reminders
    THEN [reminders EXCEPT ![reminder_id] = [@ EXCEPT !.status = "cancelled"]]
    ELSE reminders

\* A job of the job store.
Job(id, func, trigger, args) ==
    [id |-> id, func |-> func, trigger |-> trigger, args |-> args]

DateTrigger(run_date) == [type |-> "date", run_date |-> run_date]

\* f"reminder_{reminder_id}"
ReminderJobId(reminder_id) == <<"reminder", reminder_id>>

\* The jobs of the store that carry an id, and how many they are.
JobsWithId(jobs, id) == {j \in BagToSet(jobs) : j.id = id}
JobCount(jobs, id) == BagCardinality([j \in JobsWithId(jobs, id) |-> jobs[j]])

\* scheduler.remove_job(job_id): the store after it.
RemoveJob(jobs, id) == [j \in {x \in BagToSet(jobs) : x.id # id} |-> jobs[j]]

\* add_job without replace_existing taking effect.
AddJobNoReplace(jobs, job) == jobs (+) SetToBag({job})

\* scheduler.add_job(..., id=job.id, replace_existing=True)
AddJob(jobs, job) == RemoveJob(jobs, job.id) (+) SetToBag({job})

\* ReminderScheduler.schedule_reminder: the store after it.
schedule_reminder(jobs, reminder_id, telegram_id, title, remind_at, description) ==
    AddJob(jobs, Job(ReminderJobId(reminder_id), "send_reminder_notification",
                     DateTrigger(remind_at),
                     [reminder_id |-> reminder_id, telegram_id |-> telegram_id,
                      title |-> title, description |-> description]))

\* CronTrigger.from_crontab(cron_expression)
CronTrigger(cron_expression) == [type |-> "cron", cron |-> cron_expression]

\* f"reminder_recurring_{reminder_id}"
RecurringJobId(reminder_id) == <<"reminder_recurring", reminder_id>>

\* The ReminderScheduler object of a process.
SchedulerObject(process) == [object |-> "ReminderScheduler", process |-> process]

\* ReminderScheduler.schedule_recurring_reminder: the store after it. The
\* job's callable is the bound method self._send_reminder_job, which the
\* job keeps with the object it is bound to.
schedule_recurring_reminder(jobs, self, reminder_id, telegram_id, title, cron_expression, description) ==
    AddJob(jobs, Job(RecurringJobId(reminder_id), "ReminderScheduler._send_reminder_job",
                     CronTrigger(cron_expression),
                     [self |-> self, reminder_id |-> reminder_id,
                      telegram_id |-> telegram_id, title |-> title,
                      description |-> description]))

\* A job whose callable is a module-level function and whose args are ids
\* and strings.
IsFreeFunctionJob(job) ==
    job.func = "send_reminder_notification" /\ "self" \notin DOMAIN job.args

\* What a new process finds in the job store of the one before: the rows of
\* a SQLAlchemyJobStore stay, a store in memory is empty.
ReloadJobs(jobstore, jobs) == IF jobstore = "SQLAlchemyJobStore" THEN jobs ELSE EmptyBag

\* jobstores['default'] of ReminderScheduler.__init__
DefaultJobStore == "SQLAlchemyJobStore"

\* send_reminder_notification marking the reminder whatever the notifier did.
send_reminder_notification_marks_always(reminders, args, notifier, now) ==
    mark_reminder_sent(reminders, args.reminder_id, now)

\* send_reminder_notification: the rows after it. notifier is what
\* notification_service.send_reminder did: returned True ("sent"), returned
\* False or raised.
send_reminder_notification(reminders, args, notifier, now) ==
    IF notifier = "sent" THEN mark_reminder_sent(reminders, args.reminder_id, now)
    ELSE reminders

(***************************************************************************)
(* utils/nlp.py and AgentPlanner.analyze_message                           *)
(***************************************************************************)

\* A message is a sequence of tokens separated by white space: words,
\* numbers (digits) and quoted texts.
W(s) == [w |-> s]
N(n) == [n |-> n]
Q(s) == [q |-> s]
IsWord(tok) == "w" \in DOMAIN tok
IsNum(tok) == "n" \in DOMAIN tok
IsQuoted(tok) == "q" \in DOMAIN tok

\* A datetime with tzinfo, as dateparser returns it under
\* RETURN_AS_TIMEZONE_AWARE.
PyAwareDatetime(v) == [t |-> "datetime", v |-> v, aware |-> TRUE]
IsAware(v) == "aware" \in DOMAIN v

\* INTENT_KEYWORDS, in dict order.
IntentKeywords ==
    << <<"create_event", {"schedule", "appointment", "meeting", "event",
                          "save the date", "book"}>>,
       <<"create_reminder", {"remind", "reminder", "alert", "notify"}>>,
       <<"create_note", {"note", "write down", "remember", "jot down"}>>,
       <<"create_task", {"task", "todo", "to-do", "need to do"}>>,
       <<"query_events", {"what", "when", "show", "list", "upcoming"}>>,
       <<"cancel", {"cancel", "delete", "remove"}>>,
       <<"update", {"change", "update", "modify", "reschedule"}>> >>

\* `keyword in text_lower` for the words of the messages followed here: a
\* word holds a keyword when it is the keyword, and "reminder" and
\* "reschedule" hold "remind" and "schedule" too.
WordHolds(word, keyword) ==
    \/ word = keyword
    \/ word = "reminder" /\ keyword = "remind"
    \/ word = "reschedule" /\ keyword = "schedule"

\* The words of a keyword.
KeywordWords(keyword) ==
    CASE keyword = "save the date" -> <<"save", "the", "date">>
      [] keyword = "write down" -> <<"write", "down">>
      [] keyword = "jot down" -> <<"jot", "down">>
      [] keyword = "need to do" -> <<"need", "to", "do">>
      [] OTHER -> <<keyword>>

\* `keyword in text`: the keyword's words stand in the text one after the
\* other.
TextHolds(message, keyword) ==
    LET kw == KeywordWords(keyword)
    IN  \E i \in 1..Len(message) :
            /\ i + Len(kw) - 1 <= Len(message)
            /\ \A n \in 1..Len(kw) :
                  /\ IsWord(message[i + n - 1])
                  /\ IF Len(kw) = 1 THEN WordHolds(message[i].w, keyword)
                     ELSE message[i + n - 1].w = kw[n]

\* str.lower() on a word and on a text.
Lower(word) ==
    IF word = "Schedule" THEN "schedule"
    ELSE IF word = "CANCEL" THEN "cancel"
    ELSE word

LowerText(message) ==
    [i \in 1..Len(message) |->
        IF IsWord(message[i]) THEN W(Lower(message[i].w)) ELSE message[i]]

\* The loop of extract_intent, were a later match to replace an earlier one.
RECURSIVE ExtractIntentFromLast(_, _)
ExtractIntentFromLast(message, k) ==
    IF k > Len(IntentKeywords) THEN "general_query"
    ELSE LET later == ExtractIntentFromLast(message, k + 1)
         IN  IF later # "general_query" THEN later
             ELSE IF \E keyword \in IntentKeywords[k][2] : TextHolds(message, keyword)
             THEN IntentKeywords[k][1]
             ELSE "general_query"

\* IntentExtractor.extract_intent: the first intent one of whose keywords
\* the text holds.
RECURSIVE ExtractIntentFrom(_, _)
ExtractIntentFrom(message, k) ==
    IF k > Len(IntentKeywords) THEN "general_query"
    ELSE IF \E keyword \in IntentKeywords[k][2] : TextHolds(message, keyword)
    THEN IntentKeywords[k][1]
    ELSE ExtractIntentFrom(message, k + 1)

extract_intent(message) == ExtractIntentFrom(LowerText(message), 1)

\* The unit a word of a duration starts with, the units in the order of
\* extract_duration's patterns, and a unit in minutes.
UnitOf(word) ==
    CASE word \in {"minute", "minutes", "min", "mins"} -> "minute"
      [] word \in {"hour", "hours", "hr", "hrs"} -> "hour"
      [] word \in {"day", "days"} -> "day"
      [] word \in {"week", "weeks"} -> "week"
      [] OTHER -> "none"

DurationUnits == <<"minute", "hour", "day", "week">>

MinutesOf(unit) ==
    CASE unit = "minute" -> 1 [] unit = "hour" -> 60
      [] unit = "day" -> 1440 [] unit = "week" -> 10080

\* Where (\d+)\s*unit matches: a number followed by a word of the unit.
DurationMatches(message, unit) ==
    {i \in 1..(Len(message) - 1) :
        IsNum(message[i]) /\ IsWord(message[i + 1]) /\ UnitOf(message[i + 1].w) = unit}

Leftmost(positions) == CHOOSE i \in positions : \A j \in positions : i <= j

\* DateTimeParser.extract_duration: the patterns are tried in order, each on
\* the whole text; the first pattern that matches anywhere gives the
\* duration (a timedelta, here in minutes).
RECURSIVE ExtractDurationFrom(_, _)
ExtractDurationFrom(message, k) ==
    IF k > Len(DurationUnits) THEN PyNone
    ELSE LET matches == DurationMatches(message, DurationUnits[k])
         IN  IF matches # {}
             THEN PyTimedelta(message[Leftmost(matches)].n * MinutesOf(DurationUnits[k]))
             ELSE ExtractDurationFrom(message, k + 1)

extract_duration(message) == ExtractDurationFrom(message, 1)

\* The title heuristic of extract_event_info: the first quoted text, else
\* for the first of appointment, meeting, event the text holds, the match of
\* (\w+\s+)?keyword(\s+\w+)?: the keyword with the word before and the word
\* after it.
TitleKeywords == <<"appointment", "meeting", "event">>

KeywordTitle(message, keyword) ==
    LET at == Leftmost({i \in 1..Len(message) : message[i] = W(keyword)})
        first == IF at > 1 /\ ~IsQuoted(message[at - 1]) THEN at - 1 ELSE at
        last == IF at < Len(message) /\ ~IsQuoted(message[at + 1]) THEN at + 1 ELSE at
    IN  Text(SubSeq(message, first, last))

RECURSIVE TitleFromKeywords(_, _)
TitleFromKeywords(message, k) ==
    IF k > Len(TitleKeywords) THEN PyNone
    ELSE IF TextHolds(message, TitleKeywords[k]) THEN KeywordTitle(message, TitleKeywords[k])
    ELSE TitleFromKeywords(message, k + 1)

ExtractTitle(message) ==
    LET quoted == {i \in 1..Len(message) : IsQuoted(message[i])}
    IN  IF quoted # {} THEN Text(message[Leftmost(quoted)].q)
        ELSE TitleFromKeywords(message, 1)

\* reminder_before of extract_event_info: the match of
\* remind.*?(\d+)\s*unit s?\s*before, else of (\d+)\s*unit s?\s*before, handed
\* to extract_duration.
BeforeMatches(message) ==
    {i \in 1..(Len(message) - 2) :
        /\ IsNum(message[i]) /\ IsWord(message[i + 1])
        /\ UnitOf(message[i + 1].w) \in {"minute", "hour", "day"}
        /\ message[i + 2] = W("before")}

ExtractReminderBefore(message) ==
    LET befores == BeforeMatches(message)
        reminds == {r \in 1..Len(message) :
                       /\ IsWord(message[r]) /\ WordHolds(message[r].w, "remind")
                       /\ \E i \in befores : i > r}
        from == Leftmost(reminds)
        upto == Leftmost({i \in befores : i > from})
    IN  IF reminds # {} THEN extract_duration(SubSeq(message, from, upto + 2))
        ELSE IF befores # {}
        THEN extract_duration(SubSeq(message, Leftmost(befores), Leftmost(befores) + 2))
        ELSE PyNone

\* IntentExtractor.extract_event_info. parsed is what DateTimeParser.parse
\* made of the text: None, or a datetime.
extract_event_info(message, parsed) ==
    [raw_text |-> message,
     datetime |-> parsed,
     title |-> ExtractTitle(message),
     duration |-> extract_duration(message),
     reminder_before |-> ExtractReminderBefore(message),
     description |-> PyNone]

\* The units of the relative patterns: (minute|min|hour|hr|day)s?
RelativeUnits == {"minute", "hour", "day"}

IsAmount(message, i) ==
    /\ i + 1 <= Len(message)
    /\ IsNum(message[i]) /\ IsWord(message[i + 1])
    /\ UnitOf(message[i + 1].w) \in RelativeUnits

\* \bin\s+(\d+)\s+(minute|min|hour|hr|day)s? matches at token i.
InPhraseAt(message, i) == message[i] = W("in") /\ IsAmount(message, i + 1)

\* relative_patterns of analyze_message: "in N unit", "N unit from now",
\* "after N unit".
IsRelativeText(message) ==
    \E i \in 1..Len(message) :
        \/ InPhraseAt(message, i)
        \/ /\ IsAmount(message, i) /\ i + 3 <= Len(message)
           /\ message[i + 2] = W("from") /\ message[i + 3] = W("now")
        \/ message[i] = W("after") /\ IsAmount(message, i + 1)

\* The rule-based part of analyze_message, with the relative-time handling.
\* The comparison of a timezone-aware datetime with datetime.now() raises
\* TypeError.
AnalyzeRuleBased(message, parsed, now) ==
    LET info == extract_event_info(message, parsed)
        current_datetime == info.datetime
        is_relative ==
            \/ IsRelativeText(message)
            \/ ~Truthy(current_datetime)
            \/ current_datetime.v < now
    IN  IF ~Truthy(info.duration) THEN [kind |-> "return", entities |-> info]
        ELSE IF Truthy(current_datetime) /\ IsAware(current_datetime)
        THEN Raised("TypeError")
        ELSE IF is_relative
        THEN [kind |-> "return",
              entities |-> [info EXCEPT !.datetime = PyDatetime(now + info.duration.v)]]
        ELSE [kind |-> "return", entities |-> info]

\* _llm_extract_entities on the JSON object the LLM answered (a sequence of
\* key and value, <<>> when the call or the parsing failed): with a truthy
\* duration and an "in N unit" phrase in the message, datetime is set to now
\* plus that phrase's amount.
LlmExtractEntities(answer, message, now) ==
    LET has_duration == \E i \in 1..Len(answer) : answer[i][1] = "duration" /\ Truthy(answer[i][2])
        phrases == {i \in 1..Len(message) : InPhraseAt(message, i)}
        at == Leftmost(phrases)
        reminder_time == PyDatetime(now + message[at + 1].n * MinutesOf(UnitOf(message[at + 2].w)))
    IN  IF has_duration /\ phrases # {}
        THEN IF \E i \in 1..Len(answer) : answer[i][1] = "datetime"
             THEN [i \in 1..Len(answer) |->
                      IF answer[i][1] = "datetime" THEN <<"datetime", reminder_time>>
                      ELSE answer[i]]
             ELSE Append(answer, <<"datetime", reminder_time>>)
        ELSE answer

\* The merge loop of analyze_message over llm_entities.items(): entities is
\* the dict the rule-based pass filled, so the duration the loop reads is
\* the one the loop may have replaced.
RECURSIVE MergeLlmEntities(_, _)
MergeLlmEntities(entities, llm_entities) ==
    IF llm_entities = <<>> THEN entities
    ELSE LET k == Head(llm_entities)[1]
             v == Head(llm_entities)[2]
         IN  IF k = "datetime" /\ Truthy(entities.duration)
             THEN MergeLlmEntities(entities, Tail(llm_entities))
             ELSE IF v # PyNone
             THEN MergeLlmEntities([entities EXCEPT ![k] = v], Tail(llm_entities))
             ELSE MergeLlmEntities(entities, Tail(llm_entities))

\* AgentPlanner.analyze_message
analyze_message(message, parsed, answer, now, enable_clarifying_questions) ==
    LET rule_based == AnalyzeRuleBased(message, parsed, now)
    IN  IF rule_based.kind = "raise" THEN rule_based
        ELSE [kind |-> "return",
              intent |-> extract_intent(message),
              entities |->
                  IF enable_clarifying_questions
                  THEN MergeLlmEntities(rule_based.entities,
                                        LlmExtractEntities(answer, message, now))
                  ELSE rule_based.entities]

(***************************************************************************)
(* SpecRetry: one call of execute_with_retry                               *)
(***************************************************************************)

\* The largest max_retries a call is made with.
MaxRetriesBound == 3

\* The results a tool's execute can return here, and the exceptions it can
\* raise.
RetryResults ==
    {MCPOutput(SUCCESS, [payload |-> d], <<"done">>, None, EmptyDict) : d \in {"d1", "d2"}}
    \cup {MCPOutput(FAILURE, NoneData, <<"failed">>, e, EmptyDict) : e \in {None, "e1", "e2"}}
    \cup {MCPOutput(PARTIAL, [payload |-> "d1"], <<"partly">>, e, EmptyDict) : e \in {None, "e1"}}

RetryOutcomes == {Returned(r) : r \in RetryResults} \cup {Raised(m) : m \in {"x1", "x2"}}

\* The latest time the clock reaches.
MaxClock == 2

\* The ids of the reminders followed (the table's autoincrement gives the
\* first row id 1), and the times a reminder is set for.
ReminderIds == {1, 2}
Times == 0..MaxClock

\* No reminder exists and no job is stored.
SchedIdle ==
    /\ sc_now = 0
    /\ sc_reminders = <<>>
    /\ sc_jobs = EmptyBag
    /\ sc_scheduled = [reminder_id \in ReminderIds |-> NoValue]
    /\ sc_gone = {}

MessageIdle ==
    /\ pm_message = <<>>
    /\ pm_enable = TRUE
    /\ pm_pc = "idle"
    /\ pm_stm = <<>>
    /\ pm_saved = <<>>
    /\ pm_parsed = NoValue
    /\ pm_answer = NoValue
    /\ pm_analysis = NoValue
    /\ pm_plan = NoValue
    /\ pm_result = NoValue
    /\ pm_ret = NoValue
    /\ pm_exc = NoException

\* No other specification's component is in use.
RestartIdle ==
    /\ ps_process = 1
    /\ ps_fired = {}

ContextIdle ==
    /\ cx_context = EmptyDict
    /\ cx_result = NoValue
    /\ cx_after = EmptyDict
    /\ cx_pc = "idle"

RunsIdle ==
    /\ rn_plan0 = NoValue
    /\ rn_first = NoValue

RegistryIdle ==
    /\ rg_registry = [mcps |-> <<>>, cache |-> <<>>]
    /\ rg_last = NoValue
    /\ rg_caps = <<>>
    /\ rg_prev = <<>>

IntentIdle ==
    /\ ix_text = <<>>
    /\ ix_intent = NoValue

ResponseIdle == gr_call = NoValue

\* Telegram user ids.
UserIds == {1, 2}

UserMemoryIdle ==
    /\ um_max = 1
    /\ um_memories = [user_id \in UserIds |-> <<>>]
    /\ um_arrived = [user_id \in UserIds |-> <<>>]
    /\ um_last = NoValue

KeyOrderIdle ==
    /\ ko_message = <<>>
    /\ ko_parsed = NoValue
    /\ ko_answer = <<>>
    /\ ko_other = <<>>
    /\ ko_out = NoValue

\* The requests in flight.
Requests == {1, 2}

ConcurrentIdle ==
    /\ cq_mcps = EmptyDict
    /\ cq_latest = 0
    /\ cq_req = [r \in Requests |-> NoValue]
    /\ cq_held = [r \in Requests |-> {}]

CreateIdle ==
    /\ cr_input = [title |-> <<>>, remind_at |-> <<>>]
    /\ cr_scheduler = FALSE
    /\ cr_st = NoValue
    /\ cr_env = <<>>
    /\ cr_pc = "idle"

NewerIdle == UserMemoryIdle /\ KeyOrderIdle /\ ConcurrentIdle /\ CreateIdle

LastIdle == ResponseIdle /\ NewerIdle

LaterIdle == ContextIdle /\ RunsIdle /\ RegistryIdle /\ IntentIdle /\ LastIdle

OthersIdle == MessageIdle /\ RestartIdle /\ LaterIdle

RetryIdle ==
    /\ rt_max = 0
    /\ rt_attempt = 0
    /\ rt_last_error = None
    /\ rt_log = <<>>
    /\ rt_ret = NoValue
    /\ rt_exc = NoException
    /\ rt_pc = "idle"

AgentIdle ==
    /\ rq_settings = [enable_clarifying_questions |-> TRUE, enable_browserbase |-> TRUE,
                   enable_brave_search |-> TRUE]
    /\ rq_mcps = EmptyDict
    /\ rq_entry = None
    /\ rq_intent = None
    /\ rq_entities = EmptyDict
    /\ rq_plan = NoValue
    /\ rq_pc = "idle"
    /\ rq_idx = 0
    /\ rq_context = EmptyDict
    /\ rq_results = <<>>
    /\ rq_errors = <<>>
    /\ rq_trace = <<>>
    /\ rq_sessions = {}
    /\ rq_effects = {}
    /\ rq_ret = NoValue
    /\ rq_reply = NoValue

\* execute_with_retry is called with some max_retries.
InitRetry ==
    /\ rt_max \in 0..MaxRetriesBound
    /\ rt_attempt = 0
    /\ rt_last_error = None
    /\ rt_log = <<>>
    /\ rt_ret = NoValue
    /\ rt_exc = NoException
    /\ rt_pc = "loop"
    /\ AgentIdle
    /\ SchedIdle
    /\ OthersIdle

RetryLoopState == RetryState(rt_attempt, rt_last_error, rt_log, rt_ret, rt_exc)

RetrySet(st) ==
    /\ rt_attempt' = st.attempt
    /\ rt_last_error' = st.last_error
    /\ rt_log' = st.log
    /\ rt_ret' = st.ret
    /\ rt_exc' = st.exc
    /\ rt_pc' = IF RetryFinished(st) THEN "done" ELSE "loop"
    /\ UNCHANGED <<rt_max, avars, svars, evars>>

\* One iteration of the loop: execute is called and returns or raises.
RetryIterate ==
    /\ rt_pc = "loop"
    /\ rt_attempt < rt_max
    /\ \E o \in RetryOutcomes : RetrySet(RetryAttempt(RetryLoopState, o))

\* The loop is over without a success: the synthesized failure is returned.
RetryGiveUp ==
    /\ rt_pc = "loop"
    /\ rt_attempt >= rt_max
    /\ RetrySet(RetryExhausted(RetryLoopState, rt_max))

NextRetry == RetryIterate \/ RetryGiveUp

SpecRetry == InitRetry /\ [][NextRetry]_vars

(***************************************************************************)
(* Spec: one request, through process_message or through create_plan and   *)
(* execute_plan called directly                                            *)
(***************************************************************************)

\* The intents extract_intent can return (INTENT_KEYWORDS and the default):
\* the only ones process_message hands to create_plan.
ExtractableIntents ==
    {"create_event", "create_reminder", "create_note", "create_task",
     "query_events", "cancel", "update", "general_query"}

\* The feature flags: clarification on or off, the browser and search tools
\* enabled (with an API key) or not.
Settings ==
    [enable_clarifying_questions : BOOLEAN, enable_browserbase : BOOLEAN,
     enable_brave_search : BOOLEAN]

\* What raw_text holds for the planner's patterns: a full URL, a bare domain
\* or neither; a screenshot keyword; "type"/"enter"; "scroll".
RawTexts ==
    [link : {"none", "url", "domain"}, has_screenshot : BOOLEAN,
     has_type : BOOLEAN, has_scroll : BOOLEAN]

\* The entity sets handed to create_plan; a key that is absent reads as None.
EntitySets ==
    [title : {PyNone, Text("T")},
     datetime : {PyNone, PyDatetime(1)},
     description : {PyNone, Text("D")},
     reminder_before : {PyNone, PyTimedelta(15)},
     raw_text : RawTexts]

\* The ids uuid4 can yield for a new browser session.
SessionIds == {"s1", "s2"}

\* What a step meets outside the executor. Only the calendar and reminder
\* inputs have typed fields (datetime) that the planner's values can fail.
StepEnvs(tool) ==
    [valid : IF tool \in {"CalendarMCP", "ReminderMCP"} THEN BOOLEAN ELSE {TRUE},
     uuid : SessionIds,
     io : [1..StepMaxRetries -> BOOLEAN]]

\* An orchestrator exists: its AgentExecutor has registered its tools.
Init ==
    /\ RetryIdle
    /\ SchedIdle
    /\ OthersIdle
    /\ rq_settings \in Settings
    /\ rq_mcps = ExecutorRegister(EmptyDict, rq_settings)
    /\ rq_entry = None
    /\ rq_intent = None
    /\ rq_entities = EmptyDict
    /\ rq_plan = NoValue
    /\ rq_pc = "start"
    /\ rq_idx = 0
    /\ rq_context = EmptyDict
    /\ rq_results = <<>>
    /\ rq_errors = <<>>
    /\ rq_trace = <<>>
    /\ rq_sessions = {}
    /\ rq_effects = {}
    /\ rq_ret = NoValue
    /\ rq_reply = NoValue

\* execute_plan starting its loop with the context it finds.
EnterLoopKeepsContext ==
    /\ rq_pc' = "executing"
    /\ rq_idx' = 1
    /\ rq_context' = rq_context
    /\ rq_results' = <<>>
    /\ rq_errors' = <<>>

\* execute_plan starts its loop: results, errors and context are empty.
EnterLoop ==
    /\ rq_pc' = "executing"
    /\ rq_idx' = 1
    /\ rq_context' = EmptyDict
    /\ rq_results' = <<>>
    /\ rq_errors' = <<>>

\* process_message up to the clarification branch: analyze_message and
\* create_plan; a plan that requires clarification is answered with the
\* formatted questions and the cycle ends, any other plan goes to
\* execute_plan.
ProcessMessage ==
    /\ rq_pc = "start"
    /\ \E i \in ExtractableIntents, e \in EntitySets :
          LET p == CreatePlan(i, e, rq_settings.enable_clarifying_questions)
          IN  /\ rq_entry' = "process_message"
              /\ rq_intent' = i
              /\ rq_entities' = e
              /\ rq_plan' = p
              /\ IF p.requires_clarification
                 THEN /\ rq_reply' = FormatClarifyingQuestions(p.clarifying_questions)
                      /\ rq_pc' = "done"
                      /\ UNCHANGED <<rq_idx, rq_context, rq_results, rq_errors>>
                 ELSE /\ EnterLoop
                      /\ UNCHANGED rq_reply
    /\ UNCHANGED <<evars, svars, rvars, rq_settings, rq_mcps, rq_trace, rq_sessions, rq_effects, rq_ret>>

\* create_plan called on the planner directly, with any intent and entity
\* set (the caller's own values: only the Plan stays in the program).
CallCreatePlan ==
    /\ rq_pc = "start"
    /\ \E i \in PlannerIntents, e \in EntitySets :
          rq_plan' = CreatePlan(i, e, rq_settings.enable_clarifying_questions)
    /\ rq_entry' = "execute_plan"
    /\ rq_pc' = "planned"
    /\ UNCHANGED <<evars, svars, rvars, rq_settings, rq_mcps, rq_intent, rq_entities, rq_idx,
                   rq_context, rq_results, rq_errors, rq_trace, rq_sessions,
                   rq_effects, rq_ret, rq_reply>>

\* execute_plan without its early return.
CallExecutePlanNoEarlyReturn ==
    /\ rq_pc = "planned"
    /\ EnterLoop
    /\ UNCHANGED <<evars, svars, rvars, rq_settings, rq_mcps, rq_entry, rq_intent, rq_entities,
                   rq_plan, rq_trace, rq_sessions, rq_effects, rq_reply, rq_ret>>

\* execute_plan called on that plan: the early return for a plan that
\* requires clarification, else the loop starts.
CallExecutePlan ==
    /\ rq_pc = "planned"
    /\ IF rq_plan.requires_clarification
       THEN /\ rq_ret' = ClarificationResult(rq_plan)
            /\ rq_pc' = "done"
            /\ UNCHANGED <<rq_idx, rq_context, rq_results, rq_errors>>
       ELSE /\ EnterLoop
            /\ UNCHANGED rq_ret
    /\ UNCHANGED <<evars, svars, rvars, rq_settings, rq_mcps, rq_entry, rq_intent, rq_entities,
                   rq_plan, rq_trace, rq_sessions, rq_effects, rq_reply>>

\* One iteration of `for step in plan.steps`: _execute_step, then the
\* context and the errors are updated from what it did.
ExecutePlanStep ==
    /\ rq_pc = "executing"
    /\ rq_idx <= Len(rq_plan.steps)
    /\ LET step == rq_plan.steps[rq_idx]
       IN  \E env \in StepEnvs(step.tool) :
              LET did == ExecuteStep(step, rq_context, rq_mcps, rq_sessions, env)
                  o == did.outcome
              IN  /\ rq_results' = IF o.kind = "return"
                                   THEN Append(rq_results, o.result) ELSE rq_results
                  /\ rq_context' = IF o.kind = "return"
                                   THEN UpdateContext(rq_context, o.result)
                                   ELSE rq_context
                  /\ rq_errors' = rq_errors \o StepErrors(step, o)
                  /\ rq_sessions' = did.sessions
                  /\ rq_effects' = IF IsSuccess(o)
                                   THEN rq_effects \cup {step.step} ELSE rq_effects
                  /\ rq_trace' = Append(rq_trace,
                                        [index |-> rq_idx, step |-> step.step,
                                         tool |-> step.tool, context |-> rq_context,
                                         passed |-> did.passed, calls |-> did.calls,
                                         attempts |-> did.attempts,
                                         outcome |-> o])
                  /\ rq_idx' = NextStepIndex(rq_idx, o, rq_plan.steps)
                  /\ rq_plan' = [rq_plan EXCEPT !.steps[rq_idx].parameters =
                                    ParametersLeftInStep(step.parameters, rq_context)]
    /\ UNCHANGED <<evars, svars, rvars, rq_settings, rq_mcps, rq_entry, rq_intent, rq_entities,
                   rq_pc, rq_ret, rq_reply>>

\* After the loop: the aggregate result is returned.
ExecutePlanReturn ==
    /\ rq_pc = "executing"
    /\ rq_idx > Len(rq_plan.steps)
    /\ rq_ret' = AggregateResult(rq_results, rq_errors)
    /\ rq_pc' = IF rq_entry = "process_message" THEN "responding" ELSE "done"
    /\ UNCHANGED <<evars, svars, rvars, rq_settings, rq_mcps, rq_entry, rq_intent, rq_entities,
                   rq_plan, rq_idx, rq_context, rq_results, rq_errors, rq_trace,
                   rq_sessions, rq_effects, rq_reply>>

\* What the LLM call of _generate_response does when it is made: it returns
\* a text or raises.
LlmText == <<"llm text">>

LlmOutcomes == {Returned(LlmText), Raised("APIError")}

\* _generate_response without its early return for a failed execution.
generate_response_always_asks(execution_result, llm) ==
    IF llm.kind = "raise"
    THEN [response |-> execution_result.message, called |-> TRUE]
    ELSE [response |-> llm.result, called |-> TRUE]

\* _generate_response: the text returned and whether the LLM was called.
generate_response(execution_result, llm) ==
    IF ~execution_result.success
    THEN [response |-> execution_result.message, called |-> FALSE]
    ELSE IF llm.kind = "raise"
    THEN [response |-> execution_result.message, called |-> TRUE]
    ELSE [response |-> llm.result, called |-> TRUE]

\* Step 5 of process_message: _generate_response on the execution result.
GenerateResponse ==
    /\ rq_pc = "responding"
    /\ \E llm \in LlmOutcomes :
          LET did == generate_response(rq_ret, llm)
          IN  /\ rq_reply' = did.response
              /\ gr_call' = [llm |-> llm, called |-> did.called]
    /\ rq_pc' = "done"
    /\ UNCHANGED <<mvars, pvars, xvars, wvars, svars, rvars, rq_settings, rq_mcps, rq_entry, rq_intent, rq_entities,
                   rq_plan, rq_idx, rq_context, rq_results, rq_errors, rq_trace,
                   rq_sessions, rq_effects, rq_ret>>

Next ==
    \/ ProcessMessage
    \/ CallCreatePlan
    \/ CallExecutePlan
    \/ ExecutePlanStep
    \/ ExecutePlanReturn
    \/ GenerateResponse

Spec == Init /\ [][Next]_vars

(***************************************************************************)
(* SpecSched: reminders are created, scheduled, cancelled and fired        *)
(***************************************************************************)

Titles == {"a", "b"}
Users == {"u1", "u2"}
TelegramId == "tg1"

\* sc_scheduled of a reminder id whose job is in the store, and of one whose
\* job left it: by a fire (how the notifier answered, or "missed") or by
\* "cancelled".
Pending(remind_at, title, replaced) ==
    [remind_at |-> remind_at, title |-> title, replaced |-> replaced]
Left(how) == [left |-> how]
IsPending(s) == "remind_at" \in DOMAIN s

\* What a fire of a job meets: the notifier returned True, returned False or
\* raised; or the run time was missed by more than the grace time and the job
\* function is not called.
NotifierResults == {"sent", "not_sent", "raised"}

InitSched ==
    /\ RetryIdle
    /\ AgentIdle
    /\ SchedIdle
    /\ OthersIdle

\* A call of scheduler.schedule_reminder.
CallScheduleReminder(reminder_id, title, remind_at) ==
    /\ sc_jobs' = schedule_reminder(sc_jobs, reminder_id, TelegramId, title, remind_at, None)
    /\ sc_scheduled' = [sc_scheduled EXCEPT ![reminder_id] =
                           Pending(remind_at, title, IsPending(sc_scheduled[reminder_id]))]

\* ReminderMCP._create_reminder: the row is inserted, then the reminder is
\* scheduled, unless the tool has no scheduler or scheduling raised (logged).
CreateReminder ==
    /\ Len(sc_reminders) + 1 \in ReminderIds
    /\ \E user_id \in Users, title \in Titles, remind_at \in Times, scheduled \in BOOLEAN :
          /\ sc_reminders' = Append(sc_reminders, Reminder(user_id))
          /\ IF scheduled
             THEN CallScheduleReminder(Len(sc_reminders) + 1, title, remind_at)
             ELSE UNCHANGED <<sc_jobs, sc_scheduled>>
    /\ UNCHANGED <<sc_now, sc_gone, rvars, avars, evars>>

\* ReminderScheduler.schedule_reminder called for a reminder id.
ScheduleReminder ==
    /\ \E reminder_id \in ReminderIds, title \in Titles, remind_at \in Times :
          CallScheduleReminder(reminder_id, title, remind_at)
    /\ UNCHANGED <<sc_now, sc_reminders, sc_gone, rvars, avars, evars>>

\* ReminderScheduler.cancel_reminder(job_id) for the job id of a reminder:
\* remove_job, whose JobLookupError for an absent job is caught.
SchedulerCancelReminder ==
    /\ \E reminder_id \in ReminderIds :
          /\ sc_jobs' = RemoveJob(sc_jobs, ReminderJobId(reminder_id))
          /\ sc_scheduled' = [sc_scheduled EXCEPT ![reminder_id] =
                                 IF IsPending(@) THEN Left("cancelled") ELSE @]
    /\ UNCHANGED <<sc_now, sc_reminders, sc_gone, rvars, avars, evars>>

\* ReminderMCP._cancel_reminder: TemporalMemory.cancel_reminder and nothing
\* else.
CancelReminderOf(reminder_id) ==
    /\ sc_reminders' = cancel_reminder(sc_reminders, reminder_id)
    /\ sc_gone' = sc_gone \cup ({reminder_id} \cap DOMAIN sc_reminders)
    /\ UNCHANGED <<sc_now, sc_jobs, sc_scheduled, rvars, avars, evars>>

CancelReminder == \E reminder_id \in ReminderIds : CancelReminderOf(reminder_id)

\* The scheduler runs a job whose run date has come: a date job leaves the
\* store, and send_reminder_notification runs with the job's args unless the
\* run time was missed.
FireJobOf(job, notifier) ==
    /\ job \in BagToSet(sc_jobs)
    /\ job.trigger.run_date <= sc_now
    /\ notifier = "missed" => job.trigger.run_date < sc_now
    /\ sc_jobs' = RemoveJob(sc_jobs, job.id)
    /\ sc_reminders' = IF notifier = "missed" THEN sc_reminders
                       ELSE send_reminder_notification(sc_reminders, job.args,
                                                       notifier, sc_now)
    /\ sc_scheduled' = [sc_scheduled EXCEPT ![job.args.reminder_id] = Left(notifier)]
    /\ sc_gone' = IF notifier = "sent"
                  THEN sc_gone \cup ({job.args.reminder_id} \cap DOMAIN sc_reminders)
                  ELSE sc_gone
    /\ UNCHANGED <<sc_now, rvars, avars, evars>>

FireJob ==
    \E job \in BagToSet(sc_jobs), notifier \in NotifierResults \cup {"missed"} :
        FireJobOf(job, notifier)

\* TemporalMemory.mark_reminder_sent called for a reminder id.
MarkReminderSentOf(reminder_id) ==
    /\ sc_reminders' = mark_reminder_sent(sc_reminders, reminder_id, sc_now)
    /\ sc_gone' = sc_gone \cup ({reminder_id} \cap DOMAIN sc_reminders)
    /\ UNCHANGED <<sc_now, sc_jobs, sc_scheduled, rvars, avars, evars>>

MarkReminderSent == \E reminder_id \in ReminderIds : MarkReminderSentOf(reminder_id)

\* Time passes.
Tick ==
    /\ sc_now < MaxClock
    /\ sc_now' = sc_now + 1
    /\ UNCHANGED <<sc_reminders, sc_jobs, sc_scheduled, sc_gone, rvars, avars, evars>>

NextSched ==
    \/ CreateReminder
    \/ ScheduleReminder
    \/ SchedulerCancelReminder
    \/ CancelReminder
    \/ FireJob
    \/ MarkReminderSent
    \/ Tick

SpecSched == InitSched /\ [][NextSched]_vars

(***************************************************************************)
(* SpecMessage: one message through process_message, from its text         *)
(***************************************************************************)

MaxPhrases == 2

\* datetime.now(), in minutes; a request takes less than a minute.
Now == 1000

\* The phrases the messages are made of.
Phrases ==
    { <<W("in"), N(2), W("minutes")>>,
      <<W("in"), N(2), W("hours")>>,
      <<W("in"), N(0), W("minutes")>>,
      <<N(30), W("minutes")>>,
      <<W("remind"), W("me")>>,
      <<W("schedule")>>,
      <<W("a"), W("meeting")>>,
      <<W("to"), W("call"), W("mom")>>,
      <<W("tomorrow")>> }

RECURSIVE MessagesOf(_)
MessagesOf(n) ==
    IF n = 0 THEN {<<>>}
    ELSE LET shorter == MessagesOf(n - 1)
         IN  shorter \cup {m \o p : m \in shorter, p \in Phrases}

RemindMeMessage ==
    <<W("remind"), W("me"), W("in"), N(2), W("minutes"), W("to"), W("call"), W("mom")>>

ScheduleMeetingMessage == <<W("schedule"), W("a"), W("meeting")>>

Messages == MessagesOf(MaxPhrases) \cup {RemindMeMessage, ScheduleMeetingMessage}

\* What DateTimeParser.parse can make of a text: None for a text without a
\* number or a date word; else None, a timezone-aware datetime (dateparser)
\* or a naive one (the dateutil fallback), before or after now.
ParseOutcomes(message) ==
    IF \A i \in 1..Len(message) : ~IsNum(message[i]) /\ message[i] # W("tomorrow")
    THEN {PyNone}
    ELSE {PyNone, PyDatetime(Now - 60), PyDatetime(Now + 60),
          PyAwareDatetime(Now - 60), PyAwareDatetime(Now + 60)}

CallMom == Text(<<W("call"), W("mom")>>)

\* The JSON objects the LLM can answer with, as items in order; <<>> is also
\* what a failed call leaves.
LlmAnswers ==
    { <<>>,
      << <<"title", CallMom>> >>,
      << <<"title", PyStr(<<>>)>> >>,
      << <<"title", PyNone>>, <<"datetime", PyDatetime(Now + 90)>> >>,
      << <<"duration", PyStr(<<>>)>>, <<"datetime", PyDatetime(Now + 90)>> >>,
      << <<"duration", Text(<<N(2), W("minutes")>>)>>, <<"title", CallMom>> >> }

\* error_response of process_message's except block.
ErrorResponse ==
    <<"I apologize, but I encountered an error processing your request. Could you please try again?">>

\* process_message returned this text.
Reply(text) == [text |-> text]

\* How execute_plan ended.
Ended(how) == [ended |-> how]

StmMessage(role, content) == [role |-> role, content |-> content]

InitMessage ==
    /\ RetryIdle
    /\ AgentIdle
    /\ SchedIdle
    /\ RestartIdle
    /\ LaterIdle
    /\ pm_message \in Messages
    /\ pm_enable \in BOOLEAN
    /\ pm_pc = "start"
    /\ pm_stm = <<>>
    /\ pm_saved = <<>>
    /\ pm_parsed = NoValue
    /\ pm_answer = NoValue
    /\ pm_analysis = NoValue
    /\ pm_plan = NoValue
    /\ pm_result = NoValue
    /\ pm_ret = NoValue
    /\ pm_exc = NoException

\* The except block of process_message: the fixed message is added to the
\* short-term memory and returned.
ReturnErrorResponse(stm) ==
    /\ pm_stm' = Append(stm, StmMessage("assistant", ErrorResponse))
    /\ pm_ret' = Reply(ErrorResponse)
    /\ pm_pc' = "done"

\* process_message before its try block: get_or_create_user, the message
\* added to the short-term memory, save_conversation. Either database call
\* can raise, and nothing catches it.
ProcessMessageEnter ==
    /\ pm_pc = "start"
    /\ \E db \in {"ok", "get_or_create_user", "save_conversation"} :
          /\ pm_stm' = IF db = "get_or_create_user" THEN pm_stm
                       ELSE Append(pm_stm, StmMessage("user", pm_message))
          /\ pm_saved' = IF db = "ok" THEN Append(pm_saved, "user") ELSE pm_saved
          /\ pm_exc' = IF db = "ok" THEN pm_exc ELSE db
          /\ pm_pc' = IF db = "ok" THEN "analyze" ELSE "done"
    /\ UNCHANGED <<pm_message, pm_enable, pm_parsed, pm_answer, pm_analysis, pm_plan,
                   pm_result, pm_ret>>
    /\ UNCHANGED <<rvars, avars, svars, pvars, xvars, yvars>>

\* Step 1: analyze_message; what it raises goes to the except block.
ProcessMessageAnalyze ==
    /\ pm_pc = "analyze"
    /\ \E parsed \in ParseOutcomes(pm_message), answer \in LlmAnswers :
          LET analysis == analyze_message(pm_message, parsed, answer, Now, pm_enable)
          IN  /\ pm_parsed' = parsed
              /\ pm_answer' = answer
              /\ pm_analysis' = analysis
              /\ IF analysis.kind = "raise"
                 THEN ReturnErrorResponse(pm_stm)
                 ELSE pm_pc' = "plan" /\ UNCHANGED <<pm_stm, pm_ret>>
    /\ UNCHANGED <<pm_message, pm_enable, pm_saved, pm_plan, pm_result, pm_exc>>
    /\ UNCHANGED <<rvars, avars, svars, pvars, xvars, yvars>>

\* Steps 2 and 3: create_plan; a plan that requires clarification is answered
\* with the formatted questions, remembered and saved.
ProcessMessagePlan ==
    /\ pm_pc = "plan"
    /\ LET plan == CreatePlan(pm_analysis.intent, pm_analysis.entities, pm_enable)
           response == FormatClarifyingQuestions(plan.clarifying_questions)
           remembered == Append(pm_stm, StmMessage("assistant", response))
       IN  /\ pm_plan' = plan
           /\ IF plan.requires_clarification
              THEN \E db_ok \in BOOLEAN :
                      IF db_ok
                      THEN /\ pm_stm' = remembered
                           /\ pm_saved' = Append(pm_saved, "assistant")
                           /\ pm_ret' = Reply(response)
                           /\ pm_pc' = "done"
                      ELSE ReturnErrorResponse(remembered) /\ UNCHANGED pm_saved
              ELSE pm_pc' = "execute" /\ UNCHANGED <<pm_stm, pm_saved, pm_ret>>
    /\ UNCHANGED <<pm_message, pm_enable, pm_parsed, pm_answer, pm_analysis, pm_result,
                   pm_exc>>
    /\ UNCHANGED <<rvars, avars, svars, pvars, xvars, yvars>>

\* Step 4: execute_plan returns a result, successful or not, or raises.
ProcessMessageExecute ==
    /\ pm_pc = "execute"
    /\ \E outcome \in {"success", "failure", "raised"} :
          /\ pm_result' = Ended(outcome)
          /\ IF outcome = "raised"
             THEN ReturnErrorResponse(pm_stm)
             ELSE pm_pc' = "respond" /\ UNCHANGED <<pm_stm, pm_ret>>
    /\ UNCHANGED <<pm_message, pm_enable, pm_saved, pm_parsed, pm_answer, pm_analysis,
                   pm_plan, pm_exc>>
    /\ UNCHANGED <<rvars, avars, svars, pvars, xvars, yvars>>

\* _learn_preferences saves a preference for a create_reminder with a
\* reminder_before.
LearnsPreference(analysis) ==
    analysis.intent = "create_reminder" /\ Truthy(analysis.entities.reminder_before)

\* Steps 5 to 7: _generate_response (which catches the LLM's failure), the
\* response remembered and saved, _learn_preferences; a database call that
\* raises goes to the except block.
ProcessMessageRespond ==
    /\ pm_pc = "respond"
    /\ \E llm_ok \in BOOLEAN, db \in {"ok", "save_conversation", "save_preference"} :
          LET response == IF pm_result = Ended("failure") \/ ~llm_ok
                          THEN <<"result message">> ELSE <<"llm text">>
              remembered == Append(pm_stm, StmMessage("assistant", response))
          IN  /\ db = "save_preference" => LearnsPreference(pm_analysis)
              /\ pm_saved' = IF db = "save_conversation" THEN pm_saved
                             ELSE Append(pm_saved, "assistant")
              /\ IF db = "ok"
                 THEN /\ pm_stm' = remembered
                      /\ pm_ret' = Reply(response)
                      /\ pm_pc' = "done"
                 ELSE ReturnErrorResponse(remembered)
    /\ UNCHANGED <<pm_message, pm_enable, pm_parsed, pm_answer, pm_analysis, pm_plan,
                   pm_result, pm_exc>>
    /\ UNCHANGED <<rvars, avars, svars, pvars, xvars, yvars>>

NextMessage ==
    \/ ProcessMessageEnter
    \/ ProcessMessageAnalyze
    \/ ProcessMessagePlan
    \/ ProcessMessageExecute
    \/ ProcessMessageRespond

SpecMessage == InitMessage /\ [][NextMessage]_vars

(***************************************************************************)
(* SpecRestart: the job store while processes start, schedule, run jobs     *)
(* and stop                                                                *)
(***************************************************************************)

MaxProcesses == 2

CronExpressions == {"0 9 * * *"}

InitRestart ==
    /\ RetryIdle
    /\ AgentIdle
    /\ SchedIdle
    /\ MessageIdle
    /\ LaterIdle
    /\ ps_process = 1
    /\ ps_fired = {}

\* schedule_reminder called on the running process's scheduler.
RestartScheduleReminder ==
    /\ \E reminder_id \in ReminderIds, title \in Titles, remind_at \in Times :
          sc_jobs' = schedule_reminder(sc_jobs, reminder_id, TelegramId, title,
                                       remind_at, None)
    /\ UNCHANGED <<sc_now, sc_reminders, sc_scheduled, sc_gone, pvars, rvars, avars, mvars, xvars, yvars>>

\* schedule_recurring_reminder called on the running process's scheduler.
\* The store pickles the job, the object the method is bound to included:
\* either that succeeds, or add_job raises and the store is unchanged.
RestartScheduleRecurring ==
    /\ \E reminder_id \in ReminderIds, title \in Titles,
          cron_expression \in CronExpressions, pickled \in BOOLEAN :
          sc_jobs' = IF pickled
                     THEN schedule_recurring_reminder(sc_jobs, SchedulerObject(ps_process),
                                                      reminder_id, TelegramId, title,
                                                      cron_expression, None)
                     ELSE sc_jobs
    /\ UNCHANGED <<sc_now, sc_reminders, sc_scheduled, sc_gone, pvars, rvars, avars, mvars, xvars, yvars>>

\* The scheduler runs a job: a date job whose run date has come leaves the
\* store, a cron job stays; the job's callable runs with the job's args.
RestartRunJob ==
    /\ \E job \in BagToSet(sc_jobs), notifier \in NotifierResults :
          /\ job.trigger.type = "date" => job.trigger.run_date <= sc_now
          /\ sc_jobs' = IF job.trigger.type = "date" THEN RemoveJob(sc_jobs, job.id)
                        ELSE sc_jobs
          /\ sc_reminders' = send_reminder_notification(sc_reminders, job.args,
                                                        notifier, sc_now)
          /\ ps_fired' = ps_fired \cup {job.id}
    /\ UNCHANGED <<sc_now, sc_scheduled, sc_gone, ps_process, rvars, avars, mvars, xvars, yvars>>

\* The process stops and the next one starts: a new ReminderScheduler over
\* the same database, started.
Restart ==
    /\ ps_process < MaxProcesses
    /\ ps_process' = ps_process + 1
    /\ ps_fired' = {}
    /\ sc_jobs' = ReloadJobs(DefaultJobStore, sc_jobs)
    /\ UNCHANGED <<sc_now, sc_reminders, sc_scheduled, sc_gone, rvars, avars, mvars, xvars, yvars>>

NextRestart ==
    \/ RestartScheduleReminder
    \/ RestartScheduleRecurring
    \/ RestartRunJob
    \/ Restart
    \/ Tick

SpecRestart == InitRestart /\ [][NextRestart]_vars

(***************************************************************************)
(* SpecContext: the context update of execute_plan's loop body, on any      *)
(* result                                                                  *)
(***************************************************************************)

ResultSessionIds == {Text("s1"), Text("s2")}

\* result.data: None, a payload without session_id, with session_id, with a
\* nested "data" mapping.
ResultDatas ==
    {NoneData, [id |-> Text("s1")]}
    \cup {[session_id |-> sid] : sid \in ResultSessionIds}
    \cup {[data |-> [session_id |-> sid]] : sid \in ResultSessionIds}
    \cup {[session_id |-> sid, data |-> [url |-> Text("u")]] : sid \in ResultSessionIds}

\* result.metadata
ResultMetadatas == {EmptyDict} \cup {[session_id |-> sid] : sid \in ResultSessionIds}

\* The context the steps before left.
ContextsBefore == {EmptyDict, [session_id |-> Text("s0")], [url |-> Text("old")]}

InitContext ==
    /\ RetryIdle
    /\ AgentIdle
    /\ SchedIdle
    /\ MessageIdle
    /\ RestartIdle
    /\ cx_context \in ContextsBefore
    /\ \E status \in MCPStatus, data \in ResultDatas, metadata \in ResultMetadatas :
          cx_result = MCPOutput(status, data, <<"done">>, None, metadata)
    /\ cx_after = EmptyDict
    /\ cx_pc = "start"
    /\ RunsIdle
    /\ RegistryIdle
    /\ IntentIdle
    /\ LastIdle

\* The loop body of execute_plan after _execute_step returned cx_result.
ContextUpdate ==
    /\ cx_pc = "start"
    /\ cx_after' = UpdateContext(cx_context, cx_result)
    /\ cx_pc' = "done"
    /\ UNCHANGED <<cx_context, cx_result, rvars, avars, svars, mvars, pvars, nvars, gvars, ivars, yvars>>

NextContext == ContextUpdate

SpecContext == InitContext /\ [][NextContext]_vars

(***************************************************************************)
(* SpecRuns: execute_plan called on a plan, and then again on the same      *)
(* plan object                                                             *)
(***************************************************************************)

\* The intents whose plans the runs execute: one without placeholders and
\* the browser intents, whose steps refer to ${session_id}.
RunIntents ==
    {"create_event", "browser_navigation", "browser_screenshot",
     "browser_extract", "browser_interaction"}

RunEntitySets ==
    {e \in EntitySets : /\ e.title = Text("T")
                        /\ e.datetime = PyDatetime(1)
                        /\ e.description = PyNone}

InitRuns ==
    /\ Init
    /\ rq_settings.enable_brave_search = FALSE

\* create_plan; the caller keeps the plan object.
RunsCreatePlan ==
    /\ rq_pc = "start"
    /\ \E i \in RunIntents, e \in RunEntitySets :
          rq_plan' = CreatePlan(i, e, rq_settings.enable_clarifying_questions)
    /\ rn_plan0' = rq_plan'
    /\ rq_entry' = "execute_plan"
    /\ rq_pc' = "planned"
    /\ UNCHANGED <<mvars, pvars, cvars, gvars, ivars, yvars, rn_first, svars, rvars, rq_settings, rq_mcps,
                   rq_intent, rq_entities, rq_idx, rq_context, rq_results, rq_errors,
                   rq_trace, rq_sessions, rq_effects, rq_ret, rq_reply>>

\* The caller hands the same plan object to execute_plan once more. What the
\* first call left is remembered; the trace restarts with the call.
RunsExecuteAgain ==
    /\ rq_pc = "done"
    /\ rn_first = NoValue
    /\ rn_first' = [context |-> rq_context, ret |-> rq_ret, trace |-> rq_trace]
    /\ rq_trace' = <<>>
    /\ rq_pc' = "planned"
    /\ UNCHANGED <<mvars, pvars, cvars, gvars, ivars, yvars, rn_plan0, svars, rvars, rq_settings, rq_mcps,
                   rq_entry, rq_intent, rq_entities, rq_plan, rq_idx, rq_context,
                   rq_results, rq_errors, rq_sessions, rq_effects, rq_ret, rq_reply>>

NextRuns ==
    \/ RunsCreatePlan
    \/ CallExecutePlan
    \/ ExecutePlanStep
    \/ ExecutePlanReturn
    \/ RunsExecuteAgain

SpecRuns == InitRuns /\ [][NextRuns]_vars

(***************************************************************************)
(* SpecStep: _execute_step on any step and any context                     *)
(***************************************************************************)

\* Steps as a Plan can hold them: the planner's browser steps, and a
\* navigate step whose url has a token of its own.
StepInputs ==
    {CreateSessionStep(1), NavigateStep(1, Text("http://u")), ScreenshotStep(1),
     Step(1, "navigate", "BrowserbaseMCP",
          [action |-> Text("navigate"), session_id |-> SessionRef,
           url |-> PyStr(<<Lit("http://u/"), Var("page")>>)]),
     Step(1, "act", "BrowserbaseMCP",
          [action |-> Text("act"), session_id |-> SessionRef,
           action_type |-> Text("click"), instruction |-> Text("raw_text")])}

\* The context the step is executed with.
StepContexts ==
    {EmptyDict, [session_id |-> Text("s1")], [page |-> Text("p")],
     [session_id |-> Text("s1"), page |-> Text("p")]}

\* execute_plan is at a step of a plan, with a context; the browser tool
\* holds a session or none.
InitStep ==
    /\ RetryIdle
    /\ SchedIdle
    /\ OthersIdle
    /\ rq_settings \in Settings
    /\ rq_mcps = ExecutorRegister(EmptyDict, rq_settings)
    /\ rq_entry = "execute_plan"
    /\ rq_intent = None
    /\ rq_entities = EmptyDict
    /\ \E step \in StepInputs : rq_plan = Plan(<<step>>, FALSE, <<>>)
    /\ rq_pc = "executing"
    /\ rq_idx = 1
    /\ rq_context \in StepContexts
    /\ rq_results = <<>>
    /\ rq_errors = <<>>
    /\ rq_trace = <<>>
    /\ rq_sessions \in {{}, {Text("s1")}}
    /\ rq_effects = {}
    /\ rq_ret = NoValue
    /\ rq_reply = NoValue

NextStep ==
    \/ ExecutePlanStep
    \/ ExecutePlanReturn

SpecStep == InitStep /\ [][NextStep]_vars

(***************************************************************************)
(* SpecRegistry: an MCPRegistry under any sequence of register, unregister, *)
(* get and get_all_capabilities                                            *)
(***************************************************************************)

\* The instances callers register, and the names they pass: None and ""
\* (both mean the class name) or a custom name.
RegistryTools == {"CalendarMCP", "ReminderMCP"}

RegisterNames == {None, "", "cal"}

LookupNames == RegistryTools \cup {"cal", ""}

\* MCPRegistry.__init__
InitRegistry ==
    /\ RetryIdle
    /\ AgentIdle
    /\ SchedIdle
    /\ MessageIdle
    /\ RestartIdle
    /\ ContextIdle
    /\ RunsIdle
    /\ RegistryIdle
    /\ IntentIdle
    /\ LastIdle

RegistryOthers == <<rvars, avars, svars, mvars, pvars, cvars, nvars, ivars, yvars>>

CallRegister ==
    /\ \E mcp \in RegistryTools, name \in RegisterNames :
          /\ rg_registry' = register(rg_registry, mcp, name)
          /\ rg_last' = [op |-> "register", arg |-> <<mcp, name>>, ret |-> None]
    /\ UNCHANGED <<rg_caps, rg_prev, RegistryOthers>>

CallUnregister ==
    /\ \E name \in LookupNames :
          LET did == unregister(rg_registry, name)
          IN  /\ rg_registry' = did.reg
              /\ rg_last' = [op |-> "unregister", arg |-> name, ret |-> did.ret]
    /\ UNCHANGED <<rg_caps, rg_prev, RegistryOthers>>

CallGet ==
    /\ \E name \in LookupNames :
          rg_last' = [op |-> "get", arg |-> name, ret |-> get(rg_registry, name)]
    /\ UNCHANGED <<rg_registry, rg_caps, rg_prev, RegistryOthers>>

CallGetAllCapabilities ==
    /\ LET did == get_all_capabilities(rg_registry)
       IN  /\ rg_registry' = did.reg
           /\ rg_last' = [op |-> "get_all_capabilities", arg |-> None, ret |-> did.ret]
           /\ rg_caps' = <<did.ret>>
           /\ rg_prev' = rg_caps
    /\ UNCHANGED RegistryOthers

NextRegistry ==
    \/ CallRegister
    \/ CallUnregister
    \/ CallGet
    \/ CallGetAllCapabilities

SpecRegistry == InitRegistry /\ [][NextRegistry]_vars

(***************************************************************************)
(* SpecPlan: create_plan on any intent and any entities                    *)
(***************************************************************************)

\* The entity sets of EntitySets, and the ones whose title is the text
\* ${session_id}: the title is whatever stands between quotes in the
\* message, or whatever string the LLM answered.
PlanEntitySets ==
    [title : {PyNone, Text("T"), PyStr(<<Var("session_id")>>)},
     datetime : {PyNone, PyDatetime(1)},
     description : {PyNone, Text("D")},
     reminder_before : {PyNone, PyTimedelta(15)},
     raw_text : RawTexts]

\* create_plan called on the planner.
PlanCreate ==
    /\ rq_pc = "start"
    /\ \E i \in PlannerIntents, e \in PlanEntitySets :
          /\ rq_intent' = i
          /\ rq_entities' = e
          /\ rq_plan' = CreatePlan(i, e, rq_settings.enable_clarifying_questions)
    /\ rq_entry' = "create_plan"
    /\ rq_pc' = "done"
    /\ UNCHANGED <<evars, svars, rvars, rq_settings, rq_mcps, rq_idx, rq_context,
                   rq_results, rq_errors, rq_trace, rq_sessions, rq_effects, rq_ret,
                   rq_reply>>

NextPlan == PlanCreate

SpecPlan == Init /\ [][NextPlan]_vars

(***************************************************************************)
(* SpecIntent: extract_intent on any message                               *)
(***************************************************************************)

MaxWords == 3

\* The words the messages are made of: keywords of several intents, words
\* that contain a keyword, upper-case spellings, and words without one.
IntentWords ==
    {"Schedule", "reminder", "note", "task", "what", "CANCEL", "reschedule",
     "write", "down", "hello"}

RECURSIVE TextsOf(_)
TextsOf(n) ==
    IF n = 0 THEN {<<>>}
    ELSE LET shorter == TextsOf(n - 1)
         IN  shorter \cup {Append(m, W(w)) : m \in shorter, w \in IntentWords}

InitIntent ==
    /\ RetryIdle
    /\ AgentIdle
    /\ SchedIdle
    /\ MessageIdle
    /\ RestartIdle
    /\ ContextIdle
    /\ RunsIdle
    /\ RegistryIdle
    /\ LastIdle
    /\ ix_text \in TextsOf(MaxWords)
    /\ ix_intent = NoValue

CallExtractIntent ==
    /\ ix_intent = NoValue
    /\ ix_intent' = [intent |-> extract_intent(ix_text)]
    /\ UNCHANGED <<ix_text, rvars, avars, svars, mvars, pvars, cvars, nvars, gvars, yvars>>

NextIntent == CallExtractIntent

SpecIntent == InitIntent /\ [][NextIntent]_vars

(***************************************************************************)
(* SpecDispatch: a request on a process-wide registry that already holds a *)
(* FileStorageMCP when the executor is constructed                         *)
(***************************************************************************)

\* The tool names _create_execution_steps puts in steps.
PlannerTools == {"CalendarMCP", "ReminderMCP", "FileStorageMCP", "BrowserbaseMCP"}

\* get_registry().register(FileStorageMCP()) was called before
\* AgentExecutor.__init__ registered its own tools.
InitDispatch ==
    /\ RetryIdle
    /\ SchedIdle
    /\ OthersIdle
    /\ rq_settings \in Settings
    /\ rq_mcps = ExecutorRegister(RegistryRegister(EmptyDict, "FileStorageMCP"),
                                  rq_settings)
    /\ rq_entry = None
    /\ rq_intent = None
    /\ rq_entities = EmptyDict
    /\ rq_plan = NoValue
    /\ rq_pc = "start"
    /\ rq_idx = 0
    /\ rq_context = EmptyDict
    /\ rq_results = <<>>
    /\ rq_errors = <<>>
    /\ rq_trace = <<>>
    /\ rq_sessions = {}
    /\ rq_effects = {}
    /\ rq_ret = NoValue
    /\ rq_reply = NoValue

SpecDispatch == InitDispatch /\ [][Next]_vars

(***************************************************************************)
(* memory/short_term.py: ShortTermMemory and the per-user instances        *)
(* (SpecMemory)                                                            *)
(***************************************************************************)

MaxBufferSize == 2
MaxArrived == 3

\* The messages added; the buffer reads neither timestamp nor metadata.
StmMessages == {StmMessage("user", "a"), StmMessage("assistant", "b"),
                StmMessage("user", "b")}

\* deque.append without maxlen.
deque_append_unbounded(buffer, maxlen, x) == Append(buffer, x)

\* deque(maxlen=maxlen).append(x): a full deque drops its leftmost item.
deque_append(buffer, maxlen, x) ==
    IF maxlen = 0 THEN buffer
    ELSE IF Len(buffer) = maxlen THEN Append(Tail(buffer), x)
    ELSE Append(buffer, x)

\* ShortTermMemory(max_size): max_size or settings.short_term_memory_size.
ShortTermMemory(max_size, size_setting) ==
    [max_size |-> IF max_size = 0 THEN size_setting ELSE max_size, buffer |-> <<>>]

\* ShortTermMemory.add_message
add_message(stm, message) ==
    [stm EXCEPT !.buffer = deque_append(stm.buffer, stm.max_size, message)]

\* ShortTermMemory.clear
clear(stm) == [stm EXCEPT !.buffer = <<>>]

\* get_user_memory: _user_memories after the call; the instance returned is
\* the one at user_id.  An absent key is <<>>, a present one <<instance>>.
get_user_memory(memories, user_id, size_setting) ==
    IF memories[user_id] = <<>>
    THEN [memories EXCEPT ![user_id] = <<ShortTermMemory(0, size_setting)>>]
    ELSE memories

\* clear_user_memory
clear_user_memory(memories, user_id) ==
    IF memories[user_id] # <<>>
    THEN [memories EXCEPT ![user_id] = <<clear(memories[user_id][1])>>]
    ELSE memories

InitMemory ==
    /\ RetryIdle /\ AgentIdle /\ SchedIdle /\ MessageIdle /\ RestartIdle
    /\ ContextIdle /\ RunsIdle /\ RegistryIdle /\ IntentIdle /\ ResponseIdle
    /\ KeyOrderIdle /\ ConcurrentIdle /\ CreateIdle
    /\ um_max \in 1..MaxBufferSize
    /\ um_memories = [user_id \in UserIds |-> <<>>]
    /\ um_arrived = [user_id \in UserIds |-> <<>>]
    /\ um_last = NoValue

MemoryOthers == <<rvars, avars, svars, mvars, pvars, xvars, lvars, kvars, qvars, dvars>>

CallGetUserMemory ==
    \E user_id \in UserIds :
        /\ um_memories' = get_user_memory(um_memories, user_id, um_max)
        /\ um_last' = [op |-> "get_user_memory", user_id |-> user_id]
        /\ UNCHANGED <<um_max, um_arrived, MemoryOthers>>

\* stm = get_user_memory(user_id); stm.add_message(role, content)
CallAddMessage ==
    \E user_id \in UserIds, message \in StmMessages :
        /\ Len(um_arrived[user_id]) < MaxArrived
        /\ LET memories == get_user_memory(um_memories, user_id, um_max)
           IN  um_memories' = [memories EXCEPT
                   ![user_id] = <<add_message(memories[user_id][1], message)>>]
        /\ um_arrived' = [um_arrived EXCEPT ![user_id] = Append(@, message)]
        /\ um_last' = [op |-> "add_message", user_id |-> user_id]
        /\ UNCHANGED <<um_max, MemoryOthers>>

CallClearUserMemory ==
    \E user_id \in UserIds :
        /\ um_memories' = clear_user_memory(um_memories, user_id)
        /\ um_arrived' = [um_arrived EXCEPT ![user_id] = <<>>]
        /\ um_last' = [op |-> "clear_user_memory", user_id |-> user_id]
        /\ UNCHANGED <<um_max, MemoryOthers>>

NextMemory ==
    \/ CallGetUserMemory
    \/ CallAddMessage
    \/ CallClearUserMemory

SpecMemory == InitMemory /\ [][NextMemory]_vars

(***************************************************************************)
(* SpecKeyOrder: analyze_message on the same LLM key/value pairs in two    *)
(* key orders                                                              *)
(***************************************************************************)

\* The key/value pairs of the LLM's JSON object.
LlmItems ==
    { <<"title", CallMom>>, <<"title", PyNone>>,
      <<"datetime", PyDatetime(Now + 90)>>,
      <<"duration", Text(<<N(2), W("minutes")>>)>>, <<"duration", PyStr(<<>>)>> }

\* A JSON object holds a key once.
LlmItemSets ==
    {items \in SUBSET LlmItems :
        \A a \in items, b \in items : a[1] = b[1] => a = b}

\* The orders in which a JSON document can list the items.
KeyOrders(items) ==
    {order \in [1..Cardinality(items) -> items] :
        \A i \in DOMAIN order, j \in DOMAIN order : order[i] = order[j] => i = j}

KeyOrderMessages == MessagesOf(1) \cup {RemindMeMessage, ScheduleMeetingMessage}

InitKeyOrder ==
    /\ RetryIdle /\ AgentIdle /\ SchedIdle /\ MessageIdle /\ RestartIdle
    /\ ContextIdle /\ RunsIdle /\ RegistryIdle /\ IntentIdle /\ ResponseIdle
    /\ UserMemoryIdle /\ ConcurrentIdle /\ CreateIdle
    /\ ko_message \in KeyOrderMessages
    /\ ko_parsed \in ParseOutcomes(ko_message)
    /\ \E items \in LlmItemSets :
          /\ ko_answer \in KeyOrders(items)
          /\ ko_other \in KeyOrders(items)
    /\ ko_out = NoValue

\* analyze_message with the LLM pass enabled, once per key order.
CallAnalyzeMessage ==
    /\ ko_out = NoValue
    /\ ko_out' = [first |-> analyze_message(ko_message, ko_parsed, ko_answer, Now, TRUE),
                  second |-> analyze_message(ko_message, ko_parsed, ko_other, Now, TRUE)]
    /\ UNCHANGED <<ko_message, ko_parsed, ko_answer, ko_other,
                   rvars, avars, svars, mvars, pvars, xvars, lvars, uvars, qvars, dvars>>

NextKeyOrder == CallAnalyzeMessage

SpecKeyOrder == InitKeyOrder /\ [][NextKeyOrder]_vars

(***************************************************************************)
(* SpecConcurrent: two handle_message calls in flight, each with its own   *)
(* database session and AgentExecutor, on the process-wide registry        *)
(***************************************************************************)

\* A tool instance: its class and the request whose executor constructed it
\* (CalendarMCP(db) and ReminderMCP(db) keep that request's session,
\* BrowserbaseMCP its own session manager).
Instance(class, request) == [class |-> class, request |-> request]

\* registry.register(mcp): self._mcps[mcp.__class__.__name__] = mcp
RegisterInstance(mcps, mcp) ==
    [n \in DOMAIN mcps \cup {mcp.class} |-> IF n = mcp.class THEN mcp ELSE mcps[n]]

\* AgentExecutor.__init__ of a request: its instances go to get_registry().
ExecutorInit(mcps, request) ==
    RegisterInstance(RegisterInstance(RegisterInstance(mcps,
        Instance("CalendarMCP", request)),
        Instance("ReminderMCP", request)),
        Instance("BrowserbaseMCP", request))

\* The steps of the plans the two requests run.
ConcurrentPlans ==
    { << [tool |-> "CalendarMCP", action |-> "create_event"] >>,
      << [tool |-> "ReminderMCP", action |-> "create"] >>,
      << [tool |-> "BrowserbaseMCP", action |-> "create_session"],
         [tool |-> "BrowserbaseMCP", action |-> "navigate"] >>,
      << [tool |-> "BrowserbaseMCP", action |-> "create_session"],
         [tool |-> "BrowserbaseMCP", action |-> "navigate"],
         [tool |-> "BrowserbaseMCP", action |-> "screenshot"] >> }

\* str(uuid.uuid4()) of a request's create_session.
SessionOf(request) == <<"session", request>>

InitConcurrent ==
    /\ RetryIdle /\ AgentIdle /\ SchedIdle /\ MessageIdle /\ RestartIdle
    /\ ContextIdle /\ RunsIdle /\ RegistryIdle /\ IntentIdle /\ ResponseIdle
    /\ UserMemoryIdle /\ KeyOrderIdle /\ CreateIdle
    /\ cq_mcps = EmptyDict
    /\ cq_latest = 0
    /\ cq_req \in [Requests -> {[pc |-> "new", plan |-> plan, idx |-> 1,
                                 context |-> <<>>, trace |-> <<>>] :
                                plan \in ConcurrentPlans}]
    /\ cq_held = [r \in Requests |-> {}]

ConcurrentOthers == <<rvars, avars, svars, mvars, pvars, xvars, lvars, uvars, kvars, dvars>>

\* handle_message: AgentOrchestrator(db, ...) constructs the executor; the
\* constructor has no await, its registrations happen in one piece.
ConstructExecutor ==
    \E r \in Requests :
        /\ cq_req[r].pc = "new"
        /\ cq_mcps' = ExecutorInit(cq_mcps, r)
        /\ cq_latest' = r
        /\ cq_req' = [cq_req EXCEPT ![r].pc = "running"]
        /\ UNCHANGED <<cq_held, ConcurrentOthers>>

\* One pass of execute_plan's loop: _execute_step looks the tool up in the
\* registry and awaits the instance found. create_session stores the new id
\* in that instance's session manager; navigate and screenshot need the id
\* of the context in that instance's session manager.
DispatchStep ==
    \E r \in Requests :
        /\ cq_req[r].pc = "running"
        /\ LET req == cq_req[r]
               step == req.plan[req.idx]
               mcp == cq_mcps[step.tool]
               by == mcp.request
               ok == \/ step.tool # "BrowserbaseMCP"
                     \/ step.action = "create_session"
                     \/ /\ req.context # <<>>
                        /\ req.context[1] \in cq_held[by]
               entry == [tool |-> step.tool, action |-> step.action, by |-> by,
                         latest |-> cq_latest, ok |-> ok]
           IN  /\ cq_held' = IF step.action = "create_session"
                             THEN [cq_held EXCEPT ![by] = @ \cup {SessionOf(r)}]
                             ELSE cq_held
               /\ cq_req' = [cq_req EXCEPT
                     ![r].trace = Append(@, entry),
                     ![r].context = IF step.action = "create_session"
                                    THEN <<SessionOf(r)>> ELSE @,
                     ![r].idx = @ + 1,
                     ![r].pc = IF req.idx = Len(req.plan) THEN "done" ELSE "running"]
        /\ UNCHANGED <<cq_mcps, cq_latest, ConcurrentOthers>>

NextConcurrent ==
    \/ ConstructExecutor
    \/ DispatchStep

SpecConcurrent == InitConcurrent /\ [][NextConcurrent]_vars

(***************************************************************************)
(* SpecCreate: the reminder tool's create action, called by _execute_step  *)
(* through execute_with_retry                                              *)
(***************************************************************************)

\* What an attempt meets: LongTermMemory.create_reminder stores the row
\* ("ok"), raises before its commit ("raised") or after it ("committed");
\* the lookup of the user's telegram_id and scheduler.add_job succeed or
\* raise.
CreateEnvs ==
    [create : {"ok", "raised", "committed"}, lookup : BOOLEAN, add_job : BOOLEAN]

\* f"Reminder at {time_str}", whatever the time.
DefaultTitle == "Reminder at"

MissingRemindAt ==
    MCPOutput(FAILURE, NoneData, <<"Remind_at time is required for creating reminders">>,
              "Missing required field: remind_at", EmptyDict)

\* The except clause of ReminderMCP.execute.
OperationFailed(error) ==
    MCPOutput(FAILURE, NoneData, <<"Failed to execute reminder operation">>, error,
              EmptyDict)

CreatedReminder(reminder_id, title, remind_at) ==
    MCPOutput(SUCCESS, [reminder_id |-> reminder_id, title |-> title,
                        remind_at |-> remind_at],
              <<"Created reminder", title>>, None, EmptyDict)

\* _create_reminder after the row is stored: with a scheduler, the lookup
\* and schedule_reminder run inside a try whose except only logs; the
\* result is SUCCESS either way.
CreateOutcome(scheduler, env, reminder_id, title, remind_at) ==
    [result |-> CreatedReminder(reminder_id, title, remind_at),
     scheduled |-> scheduler /\ env.lookup /\ env.add_job]

InitCreate ==
    /\ RetryIdle /\ AgentIdle /\ SchedIdle /\ MessageIdle /\ RestartIdle
    /\ ContextIdle /\ RunsIdle /\ RegistryIdle /\ IntentIdle /\ ResponseIdle
    /\ UserMemoryIdle /\ KeyOrderIdle /\ ConcurrentIdle
    /\ cr_input \in [title : {<<>>} \cup {<<t>> : t \in Titles},
                      remind_at : {<<>>} \cup {<<t>> : t \in Times}]
    /\ cr_scheduler \in BOOLEAN
    /\ cr_st = RetryStart
    /\ cr_env = <<>>
    /\ cr_pc = "loop"

CreateOthers == <<rvars, avars, mvars, pvars, xvars, lvars, uvars, kvars, qvars>>

\* One attempt of execute_with_retry(input_data, max_retries=2): execute
\* calls _create_reminder.
CreateAttempt ==
    /\ cr_pc = "loop"
    /\ cr_st.attempt < StepMaxRetries
    /\ \E env \in CreateEnvs :
          LET reminder_id == Len(sc_reminders) + 1
              title == IF cr_input.title = <<>> THEN DefaultTitle ELSE cr_input.title[1]
              stored == cr_input.remind_at # <<>> /\ env.create # "raised"
              did == IF cr_input.remind_at = <<>>
                     THEN [result |-> MissingRemindAt, scheduled |-> FALSE]
                     ELSE IF env.create # "ok"
                     THEN [result |-> OperationFailed("database error"),
                           scheduled |-> FALSE]
                     ELSE CreateOutcome(cr_scheduler, env, reminder_id, title,
                                        cr_input.remind_at[1])
              st == RetryAttempt(cr_st, Returned(did.result))
          IN  /\ sc_reminders' = IF stored THEN Append(sc_reminders, Reminder("u1"))
                                 ELSE sc_reminders
              /\ IF did.scheduled
                 THEN CallScheduleReminder(reminder_id, title, cr_input.remind_at[1])
                 ELSE UNCHANGED <<sc_jobs, sc_scheduled>>
              /\ cr_st' = st
              /\ cr_env' = Append(cr_env, env)
              /\ cr_pc' = IF RetryFinished(st) THEN "done" ELSE "loop"
    /\ UNCHANGED <<cr_input, cr_scheduler, sc_now, sc_gone, CreateOthers>>

\* The budget is used up: the synthesized failure is returned.
CreateGiveUp ==
    /\ cr_pc = "loop"
    /\ cr_st.attempt >= StepMaxRetries
    /\ cr_st' = RetryExhausted(cr_st, StepMaxRetries)
    /\ cr_pc' = "done"
    /\ UNCHANGED <<cr_input, cr_scheduler, cr_env, svars, CreateOthers>>

NextCreate ==
    \/ CreateAttempt
    \/ CreateGiveUp

SpecCreate == InitCreate /\ [][NextCreate]_vars

(***************************************************************************)
(* Claims about execute_with_retry (SpecRetry)                             *)
(***************************************************************************)

AllAttemptsFailed == \A i \in 1..Len(rt_log) : ~IsSuccess(rt_log[i])

\* C1: when every attempt fails (a non-success result or an exception),
\* execute has been called exactly max_retries times when the call ends,
\* the call returns FAILURE with the message "Failed after max_retries
\* attempts" and the error of the last attempt; and no exception of execute
\* ever leaves execute_with_retry.
C1_AllFailReturnsFailureAfterN ==
    /\ rt_exc = NoException
    /\ (rt_pc = "done" /\ AllAttemptsFailed) =>
          /\ Len(rt_log) = rt_max
          /\ rt_ret # NoValue
          /\ rt_ret.status = FAILURE
          /\ rt_ret.message = FailedAfterMessage(rt_max)
          /\ rt_ret.error = (IF rt_max = 0 THEN None ELSE AttemptError(rt_log[rt_max]))

\* C1 witness: a call with at least two attempts, one of which raised and the
\* last of which returned a failure with an error, has ended.
C1_Witness ==
    /\ rt_pc = "done"
    /\ rt_max >= 2
    /\ AllAttemptsFailed
    /\ \E i \in 1..Len(rt_log) : rt_log[i].kind = "raise"
    /\ rt_log[Len(rt_log)].kind = "return"
    /\ rt_ret.error = "e1"

\* C2: a success on attempt k ends the call at once: it is the last call of
\* execute (exactly k calls are made) and the call returns exactly that
\* result.
C2_FirstSuccessReturnedAtOnce ==
    \A k \in 1..Len(rt_log) :
        IsSuccess(rt_log[k]) =>
            /\ k = Len(rt_log)
            /\ rt_pc = "done"
            /\ rt_ret = rt_log[k].result

\* C2 witness: the first success came on the second of three allowed
\* attempts, after a failed one.
C2_Witness ==
    /\ rt_pc = "done"
    /\ rt_max = 3
    /\ Len(rt_log) = 2
    /\ ~IsSuccess(rt_log[1])
    /\ IsSuccess(rt_log[2])
    /\ rt_ret = rt_log[2].result

(***************************************************************************)
(* Claims about execute_plan and create_plan (Spec)                        *)
(***************************************************************************)

\* execute_plan is running its loop or has returned from it.
PlanRun == rq_plan # NoValue /\ ~rq_plan.requires_clarification
           /\ rq_pc \in {"executing", "responding", "done"}
PlanReturned == PlanRun /\ rq_pc \in {"responding", "done"}

TraceFailed(t) == t.outcome.kind = "raise" \/ t.outcome.result.status = FAILURE
TraceSucceeded(t) == IsSuccess(t.outcome)

\* C3: the steps are attempted one by one in list order, each exactly once:
\* the j-th dispatch is the j-th step of the plan; a step that failed or
\* raised has its error recorded; and when execute_plan returns every step
\* of the plan has been attempted, whatever the steps before it did.
C3_EveryStepAttemptedInOrder ==
    PlanRun =>
        /\ \A j \in 1..Len(rq_trace) :
              /\ rq_trace[j].index = j
              /\ rq_trace[j].step = rq_plan.steps[j].step
              /\ TraceFailed(rq_trace[j]) =>
                    \E e \in 1..Len(rq_errors) : rq_errors[e][2] = rq_trace[j].step
        /\ Len(rq_trace) <= Len(rq_plan.steps)
        /\ rq_pc = "executing" => Len(rq_trace) = rq_idx - 1
        /\ PlanReturned => Len(rq_trace) = Len(rq_plan.steps)

\* C3 witness: a three-step plan has returned; its second step returned a
\* FAILURE and its third step was attempted and succeeded.
C3_Witness ==
    /\ PlanReturned
    /\ Len(rq_plan.steps) = 3
    /\ Len(rq_trace) = 3
    /\ rq_trace[2].outcome.kind = "return"
    /\ rq_trace[2].outcome.result.status = FAILURE
    /\ TraceSucceeded(rq_trace[3])

\* The entries of the trace that failed or raised, in order.
FailedTrace == SelectSeq(rq_trace, TraceFailed)

\* C4: the aggregate result has success = TRUE exactly when no step failed
\* or raised; its errors hold one entry per failed or raising step, in step
\* order, naming the step; and the steps that succeeded keep their effects
\* (the writes of every successful step, and the browser sessions created,
\* still stand at the return).
C4_AggregateSuccessIffNoStepFailed ==
    PlanReturned =>
        /\ rq_ret # NoValue
        /\ rq_ret.success = (\A j \in 1..Len(rq_trace) : ~TraceFailed(rq_trace[j]))
        /\ Len(rq_ret.errors) = Len(FailedTrace)
        /\ \A k \in 1..Len(FailedTrace) :
              /\ rq_ret.errors[k][2] = FailedTrace[k].step
              /\ rq_ret.errors[k][3] =
                    (IF FailedTrace[k].outcome.kind = "raise" THEN "error" ELSE "failed")
        /\ rq_effects = {rq_trace[j].step : j \in {i \in 1..Len(rq_trace) :
                                                     TraceSucceeded(rq_trace[i])}}
        /\ \A j \in 1..Len(rq_trace) :
              (TraceSucceeded(rq_trace[j]) /\ rq_plan.steps[j].action = "create_session")
                  => rq_trace[j].outcome.result.metadata.session_id \in rq_sessions

\* C4 witness: a plan returned with success = FALSE after its first step
\* succeeded and its second step raised: one error, the first step's effect
\* stands.
C4_Witness ==
    /\ PlanReturned
    /\ Len(rq_trace) = 2
    /\ TraceSucceeded(rq_trace[1])
    /\ rq_trace[2].outcome.kind = "raise"
    /\ rq_ret.success = FALSE
    /\ Len(rq_ret.errors) = 1
    /\ rq_effects = {1}

HasSessionToken(v) ==
    v.t = "str" /\ \E i \in 1..Len(v.toks) : v.toks[i] = Var("session_id")

\* C5: when step 1 succeeded with session_id in its result metadata and step
\* 2 has a parameter holding the ${session_id} token, the value handed to
\* step 2's tool holds no ${session_id} token, and a parameter that is the
\* token alone is handed over as that session id.
C5_SessionIdSubstituted ==
    (/\ PlanRun
     /\ Len(rq_trace) >= 2
     /\ TraceSucceeded(rq_trace[1])
     /\ "session_id" \in DOMAIN rq_trace[1].outcome.result.metadata)
    => LET sid == rq_trace[1].outcome.result.metadata.session_id
           parameters == rq_plan.steps[2].parameters
       IN  \A k \in DOMAIN parameters :
              HasSessionToken(parameters[k]) =>
                  /\ rq_trace[2].passed # NoValue
                  /\ ~HasSessionToken(rq_trace[2].passed[k])
                  /\ parameters[k] = SessionRef => rq_trace[2].passed[k] = sid

\* C5 witness: step 1 created session s1 and step 2, a navigate step holding
\* the token, was handed s1.
C5_Witness ==
    /\ PlanRun
    /\ Len(rq_trace) >= 2
    /\ TraceSucceeded(rq_trace[1])
    /\ rq_trace[1].outcome.result.metadata = [session_id |-> Text("s1")]
    /\ rq_plan.steps[2].parameters.session_id = SessionRef
    /\ rq_trace[2].passed # NoValue
    /\ rq_trace[2].passed.session_id = Text("s1")

\* C6: every Plan create_plan returns has an empty step list when it
\* requires clarification.
C6_ClarificationPlanHasNoSteps ==
    rq_plan # NoValue => (rq_plan.requires_clarification => rq_plan.steps = <<>>)

\* C6 witness: create_plan returned a plan that requires clarification, with
\* two questions.
C6_Witness ==
    /\ rq_plan # NoValue
    /\ rq_plan.requires_clarification
    /\ Len(rq_plan.clarifying_questions) = 2

C8_UnregisteredToolFailsStep ==
    PlanRun =>
        \A j \in 1..Len(rq_trace) :
            rq_trace[j].tool \notin DOMAIN rq_mcps =>
                /\ rq_trace[j].outcome.kind = "return"
                /\ rq_trace[j].outcome.result.status = FAILURE
                /\ rq_trace[j].outcome.result.error = "Tool not registered"
                /\ rq_trace[j].calls = 0
                /\ PlanReturned =>
                      /\ rq_ret # NoValue
                      /\ rq_ret.success = FALSE
                      /\ \E e \in 1..Len(rq_ret.errors) :
                            rq_ret.errors[e] = <<"Step", rq_trace[j].step, "failed",
                                                 "Tool not registered">>

\* C8 witness: a plan whose second step names an unregistered tool has
\* returned.
C8_Witness ==
    /\ PlanReturned
    /\ Len(rq_trace) >= 2
    /\ rq_trace[2].tool \notin DOMAIN rq_mcps
    /\ rq_ret.success = FALSE

(***************************************************************************)
(* Claims about the scheduler and the reminder records (SpecSched)         *)
(***************************************************************************)

\* C9: whatever schedule_reminder calls were made, the job store holds for
\* each reminder id exactly one job if the id was scheduled and its job has
\* not fired or been cancelled (ReminderScheduler.cancel_reminder) since,
\* and none otherwise; that job carries the run date and the payload of the
\* latest call for the id: a second call for the id replaces the job.
C9_OneJobPerScheduledReminder ==
    \A reminder_id \in ReminderIds :
        LET id == ReminderJobId(reminder_id)
            latest == sc_scheduled[reminder_id]
        IN  /\ JobCount(sc_jobs, id) = (IF IsPending(latest) THEN 1 ELSE 0)
            /\ IsPending(latest) =>
                  \A job \in JobsWithId(sc_jobs, id) :
                      /\ job.trigger = DateTrigger(latest.remind_at)
                      /\ job.args.reminder_id = reminder_id
                      /\ job.args.title = latest.title

\* C9 witness: reminder 1 was scheduled again while its job was in the
\* store, and the store holds one job for it and one for reminder 2.
C9_Witness ==
    /\ IsPending(sc_scheduled[1])
    /\ sc_scheduled[1].replaced
    /\ sc_scheduled[1].title = "b"
    /\ JobCount(sc_jobs, ReminderJobId(1)) = 1
    /\ JobCount(sc_jobs, ReminderJobId(2)) = 1

\* C10: a call of mark_reminder_sent for a reminder whose status is "sent"
\* changes nothing of the reminder: status stays "sent" and sent_at keeps
\* its value.
C10_SecondMarkIsNoOp ==
    [][\A reminder_id \in ReminderIds :
          (/\ reminder_id \in DOMAIN sc_reminders
           /\ sc_reminders[reminder_id].status = "sent"
           /\ MarkReminderSentOf(reminder_id))
          => sc_reminders'[reminder_id] = sc_reminders[reminder_id]]_vars

\* C11: the status of a reminder leaves "sent" and "cancelled" by no step:
\* a sent reminder stays sent and a cancelled reminder stays cancelled,
\* whatever fire, mark-sent or cancel operation follows.
C11_SentAndCancelledAreTerminal ==
    [][\A reminder_id \in DOMAIN sc_reminders :
          sc_reminders[reminder_id].status \in {"sent", "cancelled"}
          => sc_reminders'[reminder_id].status = sc_reminders[reminder_id].status]_vars

\* C12: the reminder tool's cancel action on a reminder leaves no job for it
\* in the job store and its status "cancelled"; and no fire delivers a
\* notification for a reminder whose status is "cancelled".
C12_CancelRemovesJobAndSilences ==
    [][\A reminder_id \in DOMAIN sc_reminders :
          /\ CancelReminderOf(reminder_id) =>
                /\ sc_reminders'[reminder_id].status = "cancelled"
                /\ JobCount(sc_jobs', ReminderJobId(reminder_id)) = 0
          /\ sc_reminders[reminder_id].status = "cancelled" =>
                \A job \in JobsWithId(sc_jobs, ReminderJobId(reminder_id)) :
                    ~FireJobOf(job, "sent")]_vars

\* The second half of C12 alone: no notification for a cancelled reminder.
C12_NoNotificationAfterCancel ==
    [][\A reminder_id \in DOMAIN sc_reminders :
          sc_reminders[reminder_id].status = "cancelled" =>
              \A job \in JobsWithId(sc_jobs, ReminderJobId(reminder_id)) :
                  ~FireJobOf(job, "sent")]_vars

\* How many times a reminder id occurs in a list of reminder ids.
Occurrences(ids, reminder_id) ==
    Cardinality({i \in 1..Len(ids) : ids[i] = reminder_id})

C19_FailedFireLeavesReminderAndNoJob ==
    [][/\ \A job \in BagToSet(sc_jobs), notifier \in {"not_sent", "raised"} :
            FireJobOf(job, notifier) =>
                /\ sc_reminders' = sc_reminders
                /\ JobCount(sc_jobs', job.id) = 0
       /\ \A reminder_id \in ReminderIds :
            (/\ sc_scheduled[reminder_id] \in {Left("not_sent"), Left("raised")}
             /\ ~IsPending(sc_scheduled'[reminder_id])) =>
                JobCount(sc_jobs', ReminderJobId(reminder_id)) = 0]_vars

\* C19 witness: the job of reminder 1 fired and the notifier returned False,
\* the job of reminder 2 fired and the notifier raised; both reminders are
\* as they were created and neither has a job.
C19_Witness ==
    /\ Len(sc_reminders) = 2
    /\ sc_scheduled[1] = Left("not_sent")
    /\ sc_scheduled[2] = Left("raised")
    /\ \A reminder_id \in {1, 2} :
          /\ sc_reminders[reminder_id].status = "active"
          /\ ~sc_reminders[reminder_id].is_sent
          /\ sc_reminders[reminder_id].sent_at = NoTime
          /\ JobCount(sc_jobs, ReminderJobId(reminder_id)) = 0

(***************************************************************************)
(* Claims about analyze_message, create_plan and process_message           *)
(* (SpecMessage)                                                           *)
(***************************************************************************)

Analyzed == pm_analysis # NoValue

\* The "in N unit" phrases of the message, and the time one stands for.
InPhrases == {i \in 1..Len(pm_message) : InPhraseAt(pm_message, i)}

InPhraseTime(i) == Now + pm_message[i + 1].n * MinutesOf(UnitOf(pm_message[i + 2].w))

\* C14: for every message with an explicit "in N minutes/hours/days" phrase,
\* the datetime entity analyze_message returns is now plus N of that
\* phrase's unit, whatever other durations or dates the message holds and
\* whatever the LLM answers.
C14_InPhraseGivesNowPlusN ==
    (Analyzed /\ InPhrases # {}) =>
        /\ pm_analysis.kind = "return"
        /\ pm_analysis.entities.datetime = PyDatetime(InPhraseTime(Leftmost(InPhrases)))

\* C14, for one message: "in 2 hours 30 minutes", which the date parser
\* makes nothing of and for which the LLM call fails.
C14_InTwoHoursThirtyMinutes ==
    (/\ Analyzed
     /\ pm_message = <<W("in"), N(2), W("hours"), N(30), W("minutes")>>
     /\ pm_parsed = PyNone /\ pm_answer = <<>>) =>
        /\ pm_analysis.kind = "return"
        /\ pm_analysis.entities.datetime = PyDatetime(Now + 120)

\* C15: whenever the rule-based pass extracts a duration and either no
\* absolute datetime or one that precedes the current time, the datetime
\* entity is now plus the duration, never the past datetime.
C15_DurationWithoutFutureDatetimeIsRelative ==
    (/\ Analyzed
     /\ extract_duration(pm_message) # PyNone
     /\ (pm_parsed = PyNone \/ pm_parsed.v < Now)) =>
        /\ pm_analysis.kind = "return"
        /\ pm_analysis.entities.datetime
              = PyDatetime(Now + extract_duration(pm_message).v)

\* C15 with the LLM pass off and a naive past datetime: only the rule-based
\* pass acts, on a datetime it can compare with now.
C15_RuleBasedPassAlone ==
    (/\ Analyzed /\ ~pm_enable
     /\ extract_duration(pm_message) # PyNone
     /\ pm_parsed = PyDatetime(Now - 60)) =>
        /\ pm_analysis.kind = "return"
        /\ pm_analysis.entities.datetime
              = PyDatetime(Now + extract_duration(pm_message).v)

\* C16: process_message never propagates an exception to its caller: a call
\* that has ended has returned a text; and any failure in the analyse, plan,
\* execute, respond cycle yields the one fixed apologetic message.
C16_ProcessMessageNeverRaises ==
    /\ pm_exc = NoException
    /\ pm_pc = "done" => pm_ret # NoValue
    /\ (Analyzed /\ pm_analysis.kind = "raise") => pm_ret = Reply(ErrorResponse)
    /\ pm_result = Ended("raised") => pm_ret = Reply(ErrorResponse)

Planned == pm_plan # NoValue

\* C17: for the input "schedule a meeting" the pipeline yields intent
\* create_event with missing fields [title, datetime], and the plan requires
\* clarification with exactly two questions, in this order: "What would you
\* like to call this?" and "When should this be?".
C17_ScheduleAMeetingAsksTitleAndTime ==
    (Planned /\ pm_enable /\ pm_message = ScheduleMeetingMessage) =>
        /\ pm_analysis.intent = "create_event"
        /\ CheckMissingInfo(pm_analysis.intent, pm_analysis.entities)
              = <<"title", "datetime">>
        /\ pm_plan.requires_clarification
        /\ pm_plan.clarifying_questions
              = <<"What would you like to call this?", "When should this be?">>

\* C18: for the input "remind me in 2 minutes to call mom" the pipeline
\* yields intent create_reminder, duration 2 minutes and datetime now + 2
\* minutes, and create_plan returns a plan with exactly one step, which
\* targets the reminder tool, and requires_clarification = false.
C18_RemindMeInTwoMinutesIsOneStep ==
    (Planned /\ pm_enable /\ pm_message = RemindMeMessage) =>
        /\ pm_analysis.intent = "create_reminder"
        /\ pm_analysis.entities.duration \in {PyTimedelta(2), Text(<<N(2), W("minutes")>>)}
        /\ pm_analysis.entities.datetime = PyDatetime(Now + 2)
        /\ ~pm_plan.requires_clarification
        /\ Len(pm_plan.steps) = 1
        /\ pm_plan.steps[1].tool = "ReminderMCP"

\* The rule-based pass of analyze_message took its is_relative branch: it
\* found a duration and wrote now plus the duration into datetime.
RuleBasedRecomputed ==
    LET info == extract_event_info(pm_message, pm_parsed)
    IN  /\ Truthy(info.duration)
        /\ AnalyzeRuleBased(pm_message, pm_parsed, Now).kind = "return"
        /\ \/ IsRelativeText(pm_message)
           \/ ~Truthy(info.datetime)
           \/ info.datetime.v < Now

\* C25: once the rule-based pass has recomputed datetime as now plus the
\* duration, the datetime analyze_message returns is that value, whatever
\* the LLM answered.
C25_LlmNeverReplacesComputedDatetime ==
    (Analyzed /\ RuleBasedRecomputed) =>
        pm_analysis.entities.datetime
            = PyDatetime(Now + extract_duration(pm_message).v)

(***************************************************************************)
(* Claims about the job store across restarts (SpecRestart)                *)
(***************************************************************************)

\* C20: every job that is pending when the process stops, whether created
\* by schedule_reminder or by schedule_recurring_reminder, is in the job
\* store after the restart, and it holds only a free function and plain ids
\* and strings, never a bound method or an object of the previous process.
C20_PendingJobsSurviveRestartAsPlainData ==
    [][Restart =>
          \A job \in BagToSet(sc_jobs) :
              /\ job \in BagToSet(sc_jobs')
              /\ IsFreeFunctionJob(job)]_vars

(***************************************************************************)
(* Claims about the context update (SpecContext)                           *)
(***************************************************************************)

\* C21: when a successful step's result carries a session_id both in its
\* data payload and in its metadata and the two differ, the context's
\* session_id after that step is the metadata value.
C21_MetadataSessionIdWins ==
    (/\ cx_pc = "done"
     /\ cx_result.status = SUCCESS
     /\ "session_id" \in DOMAIN cx_result.data
     /\ "session_id" \in DOMAIN cx_result.metadata
     /\ cx_result.data.session_id # cx_result.metadata.session_id) =>
        /\ "session_id" \in DOMAIN cx_after
        /\ cx_after.session_id = cx_result.metadata.session_id

\* C21 witness: over a context that held session s0, a successful result
\* with s1 in its data and s2 in its metadata left s2 in the context.
C21_Witness ==
    /\ cx_pc = "done"
    /\ cx_context = [session_id |-> Text("s0")]
    /\ cx_result.status = SUCCESS
    /\ cx_result.data = [session_id |-> Text("s1")]
    /\ cx_result.metadata = [session_id |-> Text("s2")]
    /\ cx_after = [session_id |-> Text("s2")]

(***************************************************************************)
(* Claims about repeated runs of a plan (SpecRuns)                         *)
(***************************************************************************)

\* The context keys a step's result can hand to the later steps, with the
\* values it carries for them.
Produced(result) ==
    LET data == result.data
    IN  (IF "session_id" \in DOMAIN data
         THEN {<<"session_id", data.session_id>>} ELSE {})
        \cup (IF "data" \in DOMAIN data
              THEN {<<k, data.data[k]>> : k \in DOMAIN data.data} ELSE {})
        \cup (IF "session_id" \in DOMAIN result.metadata
              THEN {<<"session_id", result.metadata.session_id>>} ELSE {})

\* C22: in every execute_plan call the first step sees an empty context,
\* every key a step sees was produced by an earlier step of the same call
\* that returned SUCCESS, and a step that failed or raised leaves the
\* context as it found it.
C22_ContextHoldsOnlyEarlierSuccesses ==
    \A i \in 1..Len(rq_trace) :
        LET seen == rq_trace[i].context
        IN  /\ i = 1 => DOMAIN seen = {}
            /\ \A k \in DOMAIN seen :
                  \E j \in 1..(i - 1) :
                      /\ IsSuccess(rq_trace[j].outcome)
                      /\ <<k, seen[k]>> \in Produced(rq_trace[j].outcome.result)
            /\ (i > 1 /\ ~IsSuccess(rq_trace[i - 1].outcome)) =>
                  seen = rq_trace[i - 1].context

\* C22 witness: the second call on a plan whose first call left a session
\* in its context; step 1 succeeded with another session, step 2 failed,
\* and step 3 saw exactly what step 2 saw.
C22_Witness ==
    /\ rn_first # NoValue
    /\ "session_id" \in DOMAIN rn_first.context
    /\ Len(rq_trace) >= 3
    /\ DOMAIN rq_trace[1].context = {}
    /\ IsSuccess(rq_trace[1].outcome)
    /\ ~IsSuccess(rq_trace[2].outcome)
    /\ rq_trace[3].context = rq_trace[2].context
    /\ "session_id" \in DOMAIN rq_trace[3].context
    /\ rq_trace[3].context.session_id # rn_first.context.session_id

\* C24: execute_plan leaves the plan as create_plan returned it, placeholders
\* included, so in every call, the second on the same plan too, a
\* ${session_id} parameter reaches the tool as the session_id of the context
\* that call's step saw.
C24_PlanUnchangedByExecution ==
    rn_plan0 # NoValue =>
        /\ rq_plan = rn_plan0
        /\ \A i \in 1..Len(rq_trace) :
              LET entry == rq_trace[i]
                  parameters == rn_plan0.steps[entry.index].parameters
              IN  entry.passed # NoValue =>
                    \A k \in DOMAIN parameters :
                        parameters[k] = SessionRef =>
                            entry.passed[k] = entry.context.session_id

\* C24 witness: the first call left session s1 in its context; in the second
\* call on the same plan a step's ${session_id} reached the tool as s2, and
\* the plan still holds the placeholder.
C24_Witness ==
    /\ rn_first # NoValue
    /\ rn_first.context = [session_id |-> Text("s1")]
    /\ Len(rq_trace) >= 2
    /\ rq_trace[2].passed # NoValue
    /\ rq_trace[2].passed.session_id = Text("s2")
    /\ rq_plan.steps[2].parameters.session_id = SessionRef
    /\ rq_plan = rn_plan0

\* The calls of a tool's execute made by the steps of the run so far.
RECURSIVE TotalCalls(_)
TotalCalls(trace) ==
    IF trace = <<>> THEN 0 ELSE Head(trace).calls + TotalCalls(Tail(trace))

\* A step that reached its tool: the tool is registered and the typed input
\* was built (the step did not raise).
Dispatched(entry) ==
    /\ entry.tool \in DOMAIN rq_mcps
    /\ entry.outcome.kind = "return"

\* C28 as stated: in a run every step's tool execute is called at least once
\* and at most 2 times, and the calls of a run are at most 2 per step of the
\* plan.
C28_EveryStepCallsItsToolOnceOrTwice ==
    /\ \A i \in 1..Len(rq_trace) :
          rq_trace[i].calls >= 1 /\ rq_trace[i].calls <= 2
    /\ rq_plan # NoValue => TotalCalls(rq_trace) <= 2 * Len(rq_plan.steps)

\* The bounds of C28, amended: at most 2 calls for every step, none exactly
\* for the steps that never reach their tool, and at most 2 per step in all.
StepCallsBounded ==
    /\ \A i \in 1..Len(rq_trace) :
          /\ rq_trace[i].calls <= 2
          /\ rq_trace[i].calls >= 1 <=> Dispatched(rq_trace[i])
    /\ rq_plan # NoValue => TotalCalls(rq_trace) <= 2 * Len(rq_plan.steps)

\* The loop of execute_plan is at a step of the plan or past the last one,
\* where it returns.
LoopInRange ==
    rq_pc = "executing" => rq_idx \in 1..(Len(rq_plan.steps) + 1)

\* A loop iteration, which is over when the step's tool calls have returned,
\* moves to the next step: the steps left to run decrease with it.
LoopAdvances ==
    ExecutePlanStep =>
        /\ rq_idx' = rq_idx + 1
        /\ Len(rq_trace') = Len(rq_trace) + 1
        /\ rq_pc' = "executing"

\* C28, amended: in a run every step's tool execute is called at most 2
\* times: not at all when the tool is not registered or the step's typed
\* input is rejected, and at least once otherwise; the calls of a run are at
\* most 2 per step of the plan; and the run ends after one iteration per
\* step: each iteration, over once its tool calls returned, moves the loop
\* to the next step, and past the last step execute_plan returns.
C28_StepCallsBoundedAndRunEnds ==
    /\ [](StepCallsBounded /\ LoopInRange)
    /\ [][LoopAdvances]_vars

\* C28 witness: a run of a three-step plan has ended; the first step took
\* one call, the two after it both of theirs, five calls in all.
C28_Witness ==
    /\ rq_pc = "done"
    /\ Len(rq_trace) = 3
    /\ rq_trace[1].calls = 1
    /\ rq_trace[2].calls = 2
    /\ rq_trace[3].calls = 2
    /\ TotalCalls(rq_trace) = 5

\* C28 second witness: a run has ended in which no step reached its tool,
\* the browser tool not being registered.
C28_WitnessNoCalls ==
    /\ rq_pc = "done"
    /\ Len(rq_trace) = 3
    /\ \A i \in 1..3 : rq_trace[i].tool \notin DOMAIN rq_mcps
    /\ TotalCalls(rq_trace) = 0

(***************************************************************************)
(* Claims about _execute_step (SpecStep)                                   *)
(***************************************************************************)

\* The parameters of a step that hold a ${name} token whose name the
\* context the step saw lacks.
Unresolved(entry) ==
    LET parameters == rq_plan.steps[entry.index].parameters
    IN  {k \in DOMAIN parameters :
            /\ parameters[k].t = "str"
            /\ \E n \in 1..Len(parameters[k].toks) :
                  /\ IsVar(parameters[k].toks[n])
                  /\ parameters[k].toks[n].var \notin DOMAIN entry.context}

\* C23: a step with a ${name} token whose name is not in the context is
\* dispatched all the same when its tool is registered: the tool is called,
\* the step does not raise, and the tool receives the token as the planner
\* wrote it.
C23_UnknownTokenPassedUnchanged ==
    \A i \in 1..Len(rq_trace) :
        LET entry == rq_trace[i]
        IN  (Unresolved(entry) # {} /\ RegistryGet(rq_mcps, entry.tool) # None) =>
                /\ entry.calls >= 1
                /\ entry.outcome.kind = "return"
                /\ \A k \in Unresolved(entry) :
                      entry.passed[k] = rq_plan.steps[entry.index].parameters[k]

\* C23 witness: a navigate step whose url holds ${page} ran with a context
\* that has session_id only; the browser tool got the session id and the
\* url with the literal ${page}, and succeeded.
C23_Witness ==
    /\ Len(rq_trace) = 1
    /\ Unresolved(rq_trace[1]) = {"url"}
    /\ rq_trace[1].calls = 1
    /\ IsSuccess(rq_trace[1].outcome)
    /\ rq_trace[1].passed.session_id = Text("s1")
    /\ rq_trace[1].passed.url = PyStr(<<Lit("http://u/"), Var("page")>>)

\* C23 second witness: a screenshot step ran with an empty context; the
\* browser tool was called with the literal ${session_id}.
C23_WitnessSessionToken ==
    /\ Len(rq_trace) = 1
    /\ DOMAIN rq_trace[1].context = {}
    /\ rq_trace[1].calls = StepMaxRetries
    /\ rq_trace[1].passed.session_id = SessionRef
    /\ rq_trace[1].outcome.kind = "return"

(***************************************************************************)
(* Claims about the registry (SpecRegistry)                                *)
(***************************************************************************)

AllCapabilityNames ==
    UNION {{Capabilities(mcp)[i] : i \in 1..Len(Capabilities(mcp))} : mcp \in RegistryTools}

\* C26: whatever calls came before, get_all_capabilities returns every
\* capability once per name under which a tool that has it is registered at
\* that moment, and nothing else; get(name) returns None exactly when no
\* tool is registered under name.
C26_CapabilitiesAreOfRegisteredTools ==
    rg_last # NoValue =>
        /\ rg_last.op = "get_all_capabilities" =>
              \A c \in AllCapabilityNames :
                  Cardinality({i \in 1..Len(rg_last.ret) : rg_last.ret[i] = c})
                    = Cardinality({i \in 1..Len(rg_registry.mcps) :
                          \E n \in 1..Len(Capabilities(rg_registry.mcps[i][2])) :
                              Capabilities(rg_registry.mcps[i][2])[n] = c})
        /\ rg_last.op = "get" =>
              ((rg_last.ret = None)
                 <=> ~(\E i \in 1..Len(rg_registry.mcps) :
                         rg_registry.mcps[i][1] = rg_last.arg))

\* C26 witness: get_all_capabilities had returned a list once (and cached
\* it); after an unregister that left only the reminder tool, it returned
\* another list, the reminder tool's capabilities.
C26_Witness ==
    /\ rg_last # NoValue
    /\ rg_last.op = "get_all_capabilities"
    /\ rg_prev # <<>>
    /\ Len(rg_prev[1]) > Len(rg_last.ret)
    /\ rg_last.ret = Capabilities("ReminderMCP")
    /\ rg_registry.mcps = << <<"ReminderMCP", "ReminderMCP">> >>

(***************************************************************************)
(* Claims about the steps of a run and of a plan (Spec)                    *)
(***************************************************************************)

\* The steps of the run whose tool the registry does not hold.
MissingToolSteps == {j \in 1..Len(rq_trace) : rq_trace[j].tool \notin DOMAIN rq_mcps}

\* C27 as stated: a step whose tool is not registered calls no tool, and the
\* retry wrapper makes its full count of attempts before the failure is
\* recorded.
C27_RetryLoopsOnMissingTool ==
    \A j \in MissingToolSteps :
        /\ rq_trace[j].calls = 0
        /\ rq_trace[j].attempts = StepMaxRetries

\* C27, amended: a step whose tool is not registered calls no tool and never
\* reaches the retry wrapper: no attempt is made, the step returns the
\* "Tool not registered" failure at once and the failure is recorded once.
C27_MissingToolFailsBeforeRetry ==
    \A j \in MissingToolSteps :
        /\ rq_trace[j].calls = 0
        /\ rq_trace[j].attempts = 0
        /\ rq_trace[j].outcome = Returned(NotRegisteredResult(rq_trace[j].tool))
        /\ rq_pc = "executing" =>
              Cardinality({e \in 1..Len(rq_errors) :
                              rq_errors[e] = <<"Step", rq_trace[j].step, "failed",
                                               "Tool not registered">>}) = 1

\* C27 witness: the one step of a file plan named FileStorageMCP, which no
\* executor registers; it failed without an attempt and left one error.
C27_Witness ==
    /\ rq_pc = "executing"
    /\ Len(rq_trace) = 1
    /\ rq_trace[1].tool = "FileStorageMCP"
    /\ MissingToolSteps = {1}
    /\ rq_trace[1].attempts = 0
    /\ Len(rq_errors) = 1

(***************************************************************************)
(* Claims about the planner's step lists (SpecPlan)                        *)
(***************************************************************************)

\* The parameters of a step that hold the ${session_id} token.
SessionTokenParameters(step) ==
    {k \in DOMAIN step.parameters : HasSessionToken(step.parameters[k])}

\* Step numbers are 1..n in list order.
StepsNumbered(steps) == \A i \in 1..Len(steps) : steps[i].step = i

\* A session_id parameter is the placeholder, never an id.
NoLiteralSessionId(steps) ==
    \A i \in 1..Len(steps) :
        "session_id" \in DOMAIN steps[i].parameters =>
            steps[i].parameters.session_id = SessionRef

\* C29: in every step list the planner builds, the step numbers are 1..n in
\* list order, every step with a parameter holding ${session_id} comes after
\* a create_session step of the same list, and no session_id parameter is a
\* literal id.
C29_PlaceholderStepsFollowCreateSession ==
    rq_plan # NoValue =>
        LET steps == rq_plan.steps
        IN  /\ StepsNumbered(steps)
            /\ \A i \in 1..Len(steps) :
                  SessionTokenParameters(steps[i]) # {} =>
                      \E j \in 1..(i - 1) : steps[j].action = "create_session"
            /\ NoLiteralSessionId(steps)

\* What holds of C29: the numbering, no literal id, and every step whose
\* session_id parameter holds the placeholder comes after a create_session
\* step.
C29_SessionIdParametersFollowCreateSession ==
    rq_plan # NoValue =>
        LET steps == rq_plan.steps
        IN  /\ StepsNumbered(steps)
            /\ \A i \in 1..Len(steps) :
                  "session_id" \in SessionTokenParameters(steps[i]) =>
                      \E j \in 1..(i - 1) : steps[j].action = "create_session"
            /\ NoLiteralSessionId(steps)

(***************************************************************************)
(* Claims about extract_intent (SpecIntent)                                *)
(***************************************************************************)

\* The rows of the intent table with a keyword that occurs in the
\* lower-cased message.
IntentHits ==
    {k \in 1..Len(IntentKeywords) :
        \E keyword \in IntentKeywords[k][2] : TextHolds(LowerText(ix_text), keyword)}

\* C30: extract_intent returns the intent of the first row of the table
\* that has a keyword occurring in the lower-cased message, whatever rows
\* after it have one too, and general_query when no row has.
C30_FirstIntentInTableOrder ==
    ix_intent # NoValue =>
        IF IntentHits = {} THEN ix_intent.intent = "general_query"
        ELSE \E k \in IntentHits :
                /\ \A other \in IntentHits : k <= other
                /\ ix_intent.intent = IntentKeywords[k][1]

\* C30 witness: "CANCEL reminder Schedule" holds keywords of cancel,
\* create_reminder and create_event, and is classified create_event, the
\* earliest row, though its keyword comes last in the message.
C30_Witness ==
    /\ ix_text = <<W("CANCEL"), W("reminder"), W("Schedule")>>
    /\ IntentHits = {1, 2, 6}
    /\ ix_intent = [intent |-> "create_event"]

\* C30 second witness: no keyword, general_query; and "write down" as a
\* keyword of two words.
C30_WitnessDefault ==
    /\ ix_text = <<W("hello"), W("down")>>
    /\ ix_intent = [intent |-> "general_query"]

C30_WitnessTwoWords ==
    /\ ix_text = <<W("write"), W("down")>>
    /\ ix_intent = [intent |-> "create_note"]

(***************************************************************************)
(* Claims about _generate_response (Spec)                                  *)
(***************************************************************************)

C31_WitnessFallback ==
    /\ gr_call # NoValue
    /\ rq_ret.success
    /\ gr_call.llm.kind = "raise"
    /\ rq_reply = rq_ret.message

(***************************************************************************)
(* Claims about the short-term memory (SpecMemory)                         *)
(***************************************************************************)

\* The last n items of a sequence, all of them when it is shorter.
LastItems(seq, n) ==
    IF Len(seq) <= n THEN seq ELSE SubSeq(seq, Len(seq) - n + 1, Len(seq))

BufferOf(memories, user_id) ==
    IF memories[user_id] = <<>> THEN <<>> ELSE <<memories[user_id][1].buffer>>

\* Every buffer holds at most max_size messages: the most recent ones added
\* since the last clear, in arrival order.
BuffersHoldMostRecent ==
    \A user_id \in UserIds :
        um_memories[user_id] # <<>> =>
            LET stm == um_memories[user_id][1]
            IN  /\ stm.max_size = um_max
                /\ Len(stm.buffer) <= stm.max_size
                /\ stm.buffer = LastItems(um_arrived[user_id], stm.max_size)

\* A call for one user leaves every other user's buffer as it was.
OtherBuffersKept ==
    um_last' # NoValue =>
        \A other \in UserIds \ {um_last'.user_id} :
            BufferOf(um_memories', other) = BufferOf(um_memories, other)

\* C32: after any sequence of add_message calls a user's buffer holds at
\* most max_size messages, the most recent ones in arrival order; and adding
\* to or clearing one user's buffer leaves every other user's buffer unchanged.
C32_BufferBoundedMostRecentPerUser ==
    /\ []BuffersHoldMostRecent
    /\ [][OtherBuffersKept]_vars

\* C32 witness: with max_size 2, user 1 was sent three messages and holds
\* the last two in order, while user 2 still holds its single message.
C32_Witness ==
    /\ um_max = 2
    /\ Len(um_arrived[1]) = 3
    /\ um_arrived[1][1] # um_arrived[1][3]
    /\ um_memories[1] # <<>>
    /\ um_memories[1][1].buffer = <<um_arrived[1][2], um_arrived[1][3]>>
    /\ um_memories[2] # <<>>
    /\ um_memories[2][1].buffer = <<StmMessage("assistant", "b")>>
    /\ um_last = [op |-> "add_message", user_id |-> 1]

\* C32 second witness: user 1's buffer was cleared while user 2's is full.
C32_WitnessClear ==
    /\ um_last = [op |-> "clear_user_memory", user_id |-> 1]
    /\ um_memories[1] # <<>>
    /\ um_memories[1][1].buffer = <<>>
    /\ um_memories[2] # <<>>
    /\ Len(um_memories[2][1].buffer) = um_max

(***************************************************************************)
(* Claims about the dispatch of the planner's tools (SpecDispatch)         *)
(***************************************************************************)

\* The step was dispatched: its typed input was built and, when the input
\* validated, the tool's execute was called.
StepDispatched(entry) ==
    \/ entry.outcome.kind = "raise"
    \/ entry.calls >= 1

\* C33: every step whose tool is one of the planner's tool names
\* (CalendarMCP, ReminderMCP, FileStorageMCP, BrowserbaseMCP) and is
\* registered is dispatched by _execute_step: its typed input is built and
\* the tool invoked, no unknown-tool failure is returned.
C33_RegisteredPlannerToolIsDispatched ==
    \A i \in 1..Len(rq_trace) :
        (rq_trace[i].tool \in PlannerTools /\ rq_trace[i].tool \in DOMAIN rq_mcps) =>
            /\ StepDispatched(rq_trace[i])
            /\ rq_trace[i].outcome.kind = "return" =>
                   rq_trace[i].outcome.result.error # "Unknown tool"

\* The same for the planner's tool names other than FileStorageMCP.
C33_TypedToolsAreDispatched ==
    \A i \in 1..Len(rq_trace) :
        (rq_trace[i].tool \in PlannerTools \ {"FileStorageMCP"}
            /\ rq_trace[i].tool \in DOMAIN rq_mcps) =>
            /\ StepDispatched(rq_trace[i])
            /\ rq_trace[i].outcome.kind = "return" =>
                   rq_trace[i].outcome.result.error # "Unknown tool"

\* A registered FileStorageMCP's step ended in the unknown-tool failure
\* without a call of the tool.
C33_FileStepUnknownTool ==
    \E i \in 1..Len(rq_trace) :
        /\ rq_trace[i].tool = "FileStorageMCP"
        /\ "FileStorageMCP" \in DOMAIN rq_mcps
        /\ rq_trace[i].calls = 0
        /\ rq_trace[i].outcome.kind = "return"
        /\ rq_trace[i].outcome.result.status = FAILURE
        /\ rq_trace[i].outcome.result.error = "Unknown tool"

(***************************************************************************)
(* Claims about the key order of the LLM's answer (SpecKeyOrder)           *)
(***************************************************************************)

\* C34: for the same rule-based entities and the same LLM key/value pairs,
\* analyze_message returns the same entities for every order of the keys in
\* the LLM's JSON output.
C34_KeyOrderDoesNotChangeEntities ==
    ko_out # NoValue => ko_out.first = ko_out.second

\* The rule-based pass found a duration.
RuleBasedDuration ==
    LET rule_based == AnalyzeRuleBased(ko_message, ko_parsed, Now)
    IN  rule_based.kind = "return" /\ Truthy(rule_based.entities.duration)

\* The LLM's answer holds a datetime and a duration that the loop stores
\* (not None) and that is truthy where the rule-based one is not, or the
\* other way round.
AnswerFlipsDuration ==
    /\ \E i \in 1..Len(ko_answer) : ko_answer[i][1] = "datetime"
    /\ \E i \in 1..Len(ko_answer) :
          /\ ko_answer[i][1] = "duration"
          /\ ko_answer[i][2] # PyNone
          /\ Truthy(ko_answer[i][2]) # RuleBasedDuration

\* The key order changes nothing for every other answer.
C34_KeyOrderIrrelevantOtherwise ==
    (ko_out # NoValue /\ ~AnswerFlipsDuration) => ko_out.first = ko_out.second

\* "to call mom", nothing parsed, no rule-based duration; the answer
\* {duration: "2 minutes", datetime: Now + 90} keeps the datetime None when
\* duration comes first and sets it when datetime comes first.
C34_DatetimeDependsOnKeyOrder ==
    /\ ko_out # NoValue
    /\ ko_message = <<W("to"), W("call"), W("mom")>>
    /\ ko_parsed = PyNone
    /\ ko_answer = << <<"duration", Text(<<N(2), W("minutes")>>)>>,
                      <<"datetime", PyDatetime(Now + 90)>> >>
    /\ ko_other = << <<"datetime", PyDatetime(Now + 90)>>,
                     <<"duration", Text(<<N(2), W("minutes")>>)>> >>
    /\ ko_out.first.kind = "return" /\ ko_out.second.kind = "return"
    /\ ko_out.first.entities.datetime = PyNone
    /\ ko_out.second.entities.datetime = PyDatetime(Now + 90)
    /\ ko_out.first.entities.duration = ko_out.second.entities.duration

(***************************************************************************)
(* Claims about two requests on the process-wide registry (SpecConcurrent) *)
(***************************************************************************)

\* C35: with two messages in flight, every step of a request is executed by
\* the tool instance that request's executor registered (bound to that
\* request's session; for the browser tool, holding that request's
\* sessions), under every interleaving of construction and step dispatch.
C35_StepsRunOnOwnInstances ==
    \A r \in Requests :
        \A i \in 1..Len(cq_req[r].trace) :
            /\ cq_req[r].trace[i].by = r
            /\ cq_req[r].trace[i].ok

\* Every step is executed by the instance of the executor constructed last,
\* whichever request the step belongs to.
C35_StepsRunOnLatestInstances ==
    \A r \in Requests :
        \A i \in 1..Len(cq_req[r].trace) :
            cq_req[r].trace[i].by = cq_req[r].trace[i].latest

\* Request 1 created its browser session on its own instance; request 2's
\* executor was constructed; request 1's navigate then ran on request 2's
\* instance, which does not hold the session.
C35_StepRunsOnOtherInstance ==
    /\ Len(cq_req[1].trace) >= 2
    /\ cq_req[1].trace[1].action = "create_session"
    /\ cq_req[1].trace[1].by = 1
    /\ cq_req[1].trace[2].action = "navigate"
    /\ cq_req[1].trace[2].by = 2
    /\ ~cq_req[1].trace[2].ok
    /\ SessionOf(1) \in cq_held[1]
    /\ SessionOf(1) \notin cq_held[2]

(***************************************************************************)
(* Claims about PARTIAL results in execute_with_retry (SpecRetry)          *)
(***************************************************************************)

\* The attempts whose execute returned a PARTIAL result.
PartialAttempts ==
    {i \in 1..Len(rt_log) :
        rt_log[i].kind = "return" /\ rt_log[i].result.status = PARTIAL}

\* C36: execute_with_retry returns only SUCCESS or FAILURE. A PARTIAL result
\* of execute counts as a failed attempt: it is not returned, and another
\* attempt follows it unless it was the last of the budget; when no attempt
\* succeeds the result returned is the synthesized FAILURE without data.
C36_PartialNeverReturned ==
    /\ rt_ret # NoValue => rt_ret.status \in {SUCCESS, FAILURE}
    /\ \A i \in PartialAttempts :
          /\ rt_ret # rt_log[i].result
          /\ rt_pc = "done" => (i < Len(rt_log) \/ i = rt_max)
    /\ (rt_pc = "done" /\ AllAttemptsFailed) =>
          /\ rt_ret.status = FAILURE
          /\ rt_ret.data = NoneData
          /\ rt_ret.message = FailedAfterMessage(rt_max)

\* C36 witness: the first attempt returned PARTIAL with data, the second
\* SUCCESS; the SUCCESS result was returned.
C36_Witness ==
    /\ rt_pc = "done"
    /\ Len(rt_log) = 2
    /\ PartialAttempts = {1}
    /\ rt_log[1].result.data = [payload |-> "d1"]
    /\ rt_log[2].kind = "return"
    /\ rt_ret = rt_log[2].result
    /\ rt_ret.status = SUCCESS

\* C36 second witness: every attempt of a budget of two returned PARTIAL
\* with data; the call returned the FAILURE without data, with the last
\* attempt's error.
C36_WitnessAllPartial ==
    /\ rt_pc = "done"
    /\ rt_max = 2
    /\ PartialAttempts = {1, 2}
    /\ rt_log[2].result.error = "e1"
    /\ rt_ret = MCPOutput(FAILURE, NoneData, FailedAfterMessage(2), "e1", EmptyDict)

(***************************************************************************)
(* Claims about the reminder tool's create action (SpecCreate)             *)
(***************************************************************************)

\* The attempts so far whose create returned SUCCESS, and those that
\* returned the FAILURE for a missing remind_at.
CreateSucceeded ==
    {i \in 1..Len(cr_st.log) : cr_st.log[i].result.status = SUCCESS}

CreateMissedRemindAt ==
    {i \in 1..Len(cr_st.log) : cr_st.log[i].result = MissingRemindAt}

\* No reminder record is stored and no job is in the store whenever an
\* attempt returned the FAILURE for a missing remind_at.
NothingStoredForMissingRemindAt ==
    CreateMissedRemindAt # {} =>
        /\ sc_reminders = <<>>
        /\ sc_jobs = EmptyBag
        /\ CreateMissedRemindAt = 1..Len(cr_st.log)

\* C37: whenever create returns SUCCESS with a scheduler attached, a job for
\* the new reminder is in the job store; and when create returns FAILURE
\* for a missing remind_at, no reminder record is persisted and no job is
\* scheduled, on any of the retry attempts.
C37_SuccessHasJobMissingTimeStoresNothing ==
    /\ cr_pc # "idle" =>
          \A i \in CreateSucceeded :
              cr_scheduler =>
                  JobCount(sc_jobs, ReminderJobId(cr_st.log[i].result.data.reminder_id)) = 1
    /\ cr_pc # "idle" => NothingStoredForMissingRemindAt

\* With a scheduler attached, the job of a created reminder is in the store
\* exactly when neither the lookup of the telegram_id nor add_job raised;
\* without a scheduler there is no job; and nothing is stored for a missing
\* remind_at.
C37_JobUnlessSchedulingRaised ==
    /\ cr_pc # "idle" =>
          \A i \in CreateSucceeded :
              JobCount(sc_jobs, ReminderJobId(cr_st.log[i].result.data.reminder_id))
                  = IF cr_scheduler /\ cr_env[i].lookup /\ cr_env[i].add_job
                    THEN 1 ELSE 0
    /\ cr_pc # "idle" => NothingStoredForMissingRemindAt

\* create returned SUCCESS on a tool with a scheduler, the reminder's row is
\* stored, add_job raised, and the store holds no job for the reminder.
C37_SuccessWithoutJob ==
    /\ cr_pc = "done"
    /\ cr_scheduler
    /\ cr_st.ret # NoValue
    /\ cr_st.ret.status = SUCCESS
    /\ cr_st.ret.data.reminder_id = 1
    /\ Len(sc_reminders) = 1
    /\ cr_env = <<[create |-> "ok", lookup |-> TRUE, add_job |-> FALSE]>>
    /\ sc_jobs = EmptyBag

\* create was called twice without remind_at; both attempts returned the
\* FAILURE for the missing field and the call the synthesized FAILURE.
C37_MissingTimeTwice ==
    /\ cr_pc = "done"
    /\ cr_input.remind_at = <<>>
    /\ CreateMissedRemindAt = {1, 2}
    /\ cr_st.ret.status = FAILURE
    /\ cr_st.ret.error = "Missing required field: remind_at"
    /\ sc_reminders = <<>>
    /\ sc_jobs = EmptyBag

====
